---- MODULE Spec2Model ----
(***************************************************************************)
(* Celestia: the astronomical calculation engine and the page state that   *)
(* feeds it (src/lib/astronomy, src/lib/data, src/app/page.tsx, the        *)
(* satellite layer).                                                       *)
(*                                                                         *)
(* Numbers.  A JavaScript number is held as an integer: NaN and +-Infinity *)
(* are two reserved values, every other integer is a finite number in the  *)
(* fixed-point unit of its quantity:                                       *)
(*   angles in degrees ........ whole degrees                              *)
(*   angles in radians ........ units of pi/180 rad                        *)
(*   sidereal time, RA ........ whole hours                                *)
(*   sines, cosines, ratios ... units of 1/Unit (Unit = 10000)             *)
(*   scene coordinates ........ units of 1/Unit scene units                *)
(*   magnitudes, light pollution ... tenths                                *)
(*   Julian dates, time values ..... hours                                 *)
(* Arithmetic rounds to the nearest unit, as IEEE arithmetic rounds to the *)
(* nearest double.  The trigonometric functions are exact at the right     *)
(* angles (cos 90 = 0, sin 180 = 0), where IEEE doubles leave a residue of *)
(* about 1e-16 because pi/2 is not a double.                               *)
(***************************************************************************)
EXTENDS Integers, Sequences, FiniteSets, TLC

VARIABLES
    location,          \* page.tsx:453  [latitude, longitude]
    dateTime,          \* page.tsx:454  time value of the simulated instant
    lightPollution,    \* page.tsx:479
    starCatalog,       \* page.tsx:459
    isLoadingStars,    \* page.tsx:460
    extendedDeepSky,   \* page.tsx:465
    ephem,             \* how the ephemeris library behaves in this session
    timeZone,          \* host setting: local time = UTC + timeZone hours
    satChildren,       \* part_005:43   the three.js children of the satellites group
    satFailed,         \* history: satellites whose propagation has failed once
    probe,             \* inputs of a function under test
    result,            \* its result
    asteroids,         \* page.tsx:464
    unmounted,         \* page.tsx:539  the cleanup of the effects has run
    storage,           \* localStorage: the items of the three services
    starFetch,         \* the call of fetchStarCatalog made by loadStars
    deepSkyFetch,      \* the promise of fetchAllDeepSky
    asteroidFetch,     \* the promise of fetchNearEarthAsteroids
    tour,              \* TourGuide: its props, its state and what it rendered
    anim               \* page.tsx:455, 495-496  the time animation and the browser's frames

pageVars == <<location, dateTime, lightPollution, starCatalog, isLoadingStars,
              extendedDeepSky, ephem, timeZone>>
satVars == <<satChildren, satFailed>>
probeVars == <<probe, result>>
loadVars == <<asteroids, unmounted, storage, starFetch, deepSkyFetch, asteroidFetch>>
uiVars == <<tour, anim>>
vars == <<pageVars, satVars, probeVars, loadVars, uiVars>>

-----------------------------------------------------------------------------
(* JavaScript numbers                                                      *)

NaN == 999999999
Infinity == 999999998
\* the JavaScript value undefined, where a number is expected
Undefined == 999999997

IsNaN(x) == x = NaN
IsFinite(x) == x # NaN /\ x # Infinity /\ x # -Infinity
Abs(x) == IF x < 0 THEN -x ELSE x
Sign(x) == IF x < 0 THEN -1 ELSE IF x > 0 THEN 1 ELSE 0

\* a > b, a < b, a >= b, a <= b of JavaScript: false when an operand is NaN
Gt(a, b) == ~IsNaN(a) /\ ~IsNaN(b) /\ a > b
Lt(a, b) == ~IsNaN(a) /\ ~IsNaN(b) /\ a < b
Ge(a, b) == ~IsNaN(a) /\ ~IsNaN(b) /\ a >= b
Le(a, b) == ~IsNaN(a) /\ ~IsNaN(b) /\ a <= b

\* n / d rounded to the nearest integer (d # 0), halves away from zero
RoundDiv(n, d) ==
    LET q == (2 * Abs(n) + Abs(d)) \div (2 * Abs(d))
    IN  IF Sign(n) * Sign(d) < 0 THEN -q ELSE q

Neg(a) == IF IsNaN(a) THEN NaN ELSE -a

Add(a, b) ==
    IF IsNaN(a) \/ IsNaN(b) THEN NaN
    ELSE IF ~IsFinite(a) THEN (IF ~IsFinite(b) /\ b # a THEN NaN ELSE a)
    ELSE IF ~IsFinite(b) THEN b
    ELSE a + b

Sub(a, b) == Add(a, Neg(b))

\* a * k for an exact integer factor k
Times(a, k) ==
    IF IsNaN(a) THEN NaN
    ELSE IF ~IsFinite(a) THEN (IF k = 0 THEN NaN ELSE Sign(a) * Sign(k) * Infinity)
    ELSE a * k

\* a / k for an exact integer divisor k # 0
Over(a, k) ==
    IF IsNaN(a) THEN NaN
    ELSE IF ~IsFinite(a) THEN Sign(a) * Sign(k) * Infinity
    ELSE RoundDiv(a, k)

\* JavaScript a % n for a positive integer n: the sign follows the dividend
JsMod(a, n) ==
    IF ~IsFinite(a) THEN NaN
    ELSE IF a >= 0 THEN a % n ELSE -((-a) % n)

MathMax(a, b) == IF IsNaN(a) \/ IsNaN(b) THEN NaN ELSE IF a > b THEN a ELSE b
MathMin(a, b) == IF IsNaN(a) \/ IsNaN(b) THEN NaN ELSE IF a < b THEN a ELSE b

-----------------------------------------------------------------------------
(* Math.sin, Math.cos, Math.asin, Math.acos, Math.atan2                    *)

\* sin(d degrees) * 10000 for d = 0..90 (index d + 1)
SinTab == <<0, 175, 349, 523, 698, 872, 1045, 1219, 1392, 1564, 1736, 1908,
    2079, 2250, 2419, 2588, 2756, 2924, 3090, 3256, 3420, 3584, 3746, 3907,
    4067, 4226, 4384, 4540, 4695, 4848, 5000, 5150, 5299, 5446, 5592, 5736,
    5878, 6018, 6157, 6293, 6428, 6561, 6691, 6820, 6947, 7071, 7193, 7314,
    7431, 7547, 7660, 7771, 7880, 7986, 8090, 8192, 8290, 8387, 8480, 8572,
    8660, 8746, 8829, 8910, 8988, 9063, 9135, 9205, 9272, 9336, 9397, 9455,
    9511, 9563, 9613, 9659, 9703, 9744, 9781, 9816, 9848, 9877, 9903, 9925,
    9945, 9962, 9976, 9986, 9994, 9998, 10000>>

\* sin((d - 1/2) degrees) * 10000 for d = 1..90: asin rounds to d or above from here
SinMid == <<87, 262, 436, 610, 785, 958, 1132, 1305, 1478, 1650, 1822, 1994,
    2164, 2334, 2504, 2672, 2840, 3007, 3173, 3338, 3502, 3665, 3827, 3987,
    4147, 4305, 4462, 4617, 4772, 4924, 5075, 5225, 5373, 5519, 5664, 5807,
    5948, 6088, 6225, 6361, 6494, 6626, 6756, 6884, 7009, 7133, 7254, 7373,
    7490, 7604, 7716, 7826, 7934, 8039, 8141, 8241, 8339, 8434, 8526, 8616,
    8704, 8788, 8870, 8949, 9026, 9100, 9171, 9239, 9304, 9367, 9426, 9483,
    9537, 9588, 9636, 9681, 9724, 9763, 9799, 9833, 9863, 9890, 9914, 9936,
    9954, 9969, 9981, 9990, 9997, 10000>>

\* tan((d - 1/2) degrees) * 10000 for d = 1..45
TanMid == <<87, 262, 437, 612, 787, 963, 1139, 1317, 1495, 1673, 1853, 2035,
    2217, 2401, 2586, 2773, 2962, 3153, 3346, 3541, 3739, 3939, 4142, 4348,
    4557, 4770, 4986, 5206, 5430, 5658, 5890, 6128, 6371, 6619, 6873, 7133,
    7400, 7673, 7954, 8243, 8541, 8847, 9163, 9490, 9827>>

\* the fixed-point value of 1.0
Unit == SinTab[91]

\* a * b of two fixed-point numbers
Mul(a, b) ==
    IF IsNaN(a) \/ IsNaN(b) THEN NaN
    ELSE IF ~IsFinite(a) \/ ~IsFinite(b)
         THEN (IF a = 0 \/ b = 0 THEN NaN ELSE Sign(a) * Sign(b) * Infinity)
    ELSE RoundDiv(a * b, Unit)

\* a / b of two fixed-point numbers: x/0 is +-Infinity, 0/0 is NaN
Div(a, b) ==
    IF IsNaN(a) \/ IsNaN(b) THEN NaN
    ELSE IF ~IsFinite(a) THEN (IF ~IsFinite(b) THEN NaN
                               ELSE (IF b < 0 THEN -a ELSE a))
    ELSE IF ~IsFinite(b) THEN 0
    ELSE IF b = 0 THEN (IF a = 0 THEN NaN ELSE Sign(a) * Infinity)
    ELSE RoundDiv(a * Unit, b)

\* sin of a whole number of degrees, 0 <= d < 360
SinDeg(d) ==
    IF d <= 90 THEN SinTab[d + 1]
    ELSE IF d <= 180 THEN SinTab[180 - d + 1]
    ELSE IF d <= 270 THEN -SinTab[d - 180 + 1]
    ELSE -SinTab[360 - d + 1]

\* Math.sin and Math.cos of an angle in radians (units of pi/180)
MathSin(r) == IF ~IsFinite(r) THEN NaN ELSE SinDeg(r % 360)
MathCos(r) == IF ~IsFinite(r) THEN NaN ELSE SinDeg((r + 90) % 360)

\* the number of entries of a sorted table that are <= v, by bisection of lo..hi
RECURSIVE CountLe(_, _, _, _)
CountLe(tab, v, lo, hi) ==
    IF lo > hi THEN lo - 1
    ELSE LET mid == (lo + hi) \div 2
         IN  IF tab[mid] <= v THEN CountLe(tab, v, mid + 1, hi)
             ELSE CountLe(tab, v, lo, mid - 1)

\* Math.asin: radians in [-90, 90], NaN outside [-1, 1]
MathAsin(v) ==
    IF IsNaN(v) \/ Abs(v) > Unit THEN NaN
    ELSE Sign(v) * CountLe(SinMid, Abs(v), 1, 90)

\* Math.acos: radians in [0, 180], NaN outside [-1, 1]
MathAcos(v) == IF IsNaN(MathAsin(v)) THEN NaN ELSE 90 - MathAsin(v)

\* atan of min/max for 0 <= lo <= hi, hi > 0: radians in [0, 45]
AtanRatio(lo, hi) == CountLe(TanMid, (lo * Unit) \div hi, 1, 45)

\* Math.atan2(y, x): radians in [-180, 180]
MathAtan2(y, x) ==
    IF IsNaN(y) \/ IsNaN(x) THEN NaN
    ELSE IF x = 0 /\ y = 0 THEN 0
    ELSE LET yy == IF ~IsFinite(y) THEN Sign(y) ELSE IF ~IsFinite(x) THEN 0 ELSE y
             xx == IF ~IsFinite(x) THEN Sign(x) ELSE IF ~IsFinite(y) THEN 0 ELSE x
             ay == Abs(yy)
             ax == Abs(xx)
             first == IF ay <= ax THEN AtanRatio(ay, ax) ELSE 90 - AtanRatio(ax, ay)
             upper == IF xx >= 0 THEN first ELSE 180 - first
         IN  IF yy < 0 THEN -upper ELSE upper

-----------------------------------------------------------------------------
(* The Date object: the time value is a whole number of hours since        *)
(* 1970-01-01T00:00Z, or NaN for an Invalid Date                           *)

\* days since 1970-01-01 of the civil date y-m-d (proleptic Gregorian)
DaysFromCivil(y, m, d) ==
    LET yy == IF m <= 2 THEN y - 1 ELSE y
        era == yy \div 400
        yoe == yy - era * 400
        mp == IF m > 2 THEN m - 3 ELSE m + 9
        doy == (153 * mp + 2) \div 5 + d - 1
        doe == yoe * 365 + yoe \div 4 - yoe \div 100 + doy
    IN  era * 146097 + doe - 719468

\* the civil date [year, month, day] of a day number
CivilFromDays(z) ==
    LET zz == z + 719468
        era == zz \div 146097
        doe == zz - era * 146097
        yoe == (doe - doe \div 1460 + doe \div 36524 - doe \div 146096) \div 365
        doy == doe - (365 * yoe + yoe \div 4 - yoe \div 100)
        mp == (5 * doy + 2) \div 153
        d == doy - (153 * mp + 2) \div 5 + 1
        m == IF mp < 10 THEN mp + 3 ELSE mp - 9
        y == yoe + era * 400
    IN  [year |-> IF m <= 2 THEN y + 1 ELSE y, month |-> m, day |-> d]

\* new Date(Date.UTC(y, m - 1, d, h))
MakeDate(y, m, d, h) == DaysFromCivil(y, m, d) * 24 + h

InvalidDate == NaN

\* date.getUTCFullYear(), getUTCMonth() + 1, getUTCDate(), getUTCHours()
GetUTCFullYear(t) == IF ~IsFinite(t) THEN NaN ELSE CivilFromDays(t \div 24).year
GetUTCMonth1(t) == IF ~IsFinite(t) THEN NaN ELSE CivilFromDays(t \div 24).month
GetUTCDate(t) == IF ~IsFinite(t) THEN NaN ELSE CivilFromDays(t \div 24).day
GetUTCHours(t) == IF ~IsFinite(t) THEN NaN ELSE t % 24

-----------------------------------------------------------------------------
(* src/lib/astronomy/coordinates.ts                                        *)

\* degrees -> radians: a radian value counts units of pi/180
degToRad(degrees) == Times(degrees, 1)
radToDeg(radians) == Times(radians, 1)

normalizeAngle(angle) ==
    LET r == JsMod(angle, 360)
    IN  IF Lt(r, 0) THEN Add(r, 360) ELSE r

\* the Julian Date without the correction b of the Gregorian calendar
dateToJulianDateJulian(date) ==
    IF ~IsFinite(date) THEN NaN
    ELSE LET year == GetUTCFullYear(date)
             month == GetUTCMonth1(date)
             day == GetUTCDate(date)
             hour == GetUTCHours(date)
             y == IF month <= 2 THEN year - 1 ELSE year
             m == IF month <= 2 THEN month + 12 ELSE month
         IN  24 * ((36525 * (y + 4716)) \div 100 + (306001 * (m + 1)) \div 10000
                   + day) + hour - 36588

\* the Julian Date, in hours (24 * JD)
dateToJulianDate(date) ==
    IF ~IsFinite(date) THEN NaN
    ELSE LET year == GetUTCFullYear(date)
             month == GetUTCMonth1(date)
             day == GetUTCDate(date)
             hour == GetUTCHours(date)
             y == IF month <= 2 THEN year - 1 ELSE year
             m == IF month <= 2 THEN month + 12 ELSE month
             a == y \div 100
             b == 2 - a + a \div 4
         IN  24 * ((36525 * (y + 4716)) \div 100 + (306001 * (m + 1)) \div 10000
                   + day + b) + hour - 36588

\* GMST in whole hours, 0..23; the polynomial is evaluated in centiseconds
julianDateToGMST(jd) ==
    IF ~IsFinite(jd) THEN NaN
    ELSE LET dH == jd - 58837080                \* 24 * (jd - 2451545.0)
             q == dH \div 1000
             r == dH % 1000
             lin == q * 985647 + RoundDiv(r * 985647, 1000)  \* 8640184.812866 * T
             T4 == RoundDiv(dH * 100, 8766)                  \* 10000 * T
             quad == RoundDiv(T4 * T4, 10740677)             \* 0.093104 * T * T
             jdFrac == (jd % 24) - 12                        \* jd - floor(jd) - 0.5
             gmst == 2411055 + lin + quad + jdFrac * 360986
             h == JsMod(RoundDiv(gmst, 360000), 24)
         IN  IF h < 0 THEN h + 24 ELSE h

calculateLST(gmst, longitude) ==
    LET longitudeHours == Over(longitude, 15)
        lst == JsMod(Add(gmst, longitudeHours), 24)
    IN  IF Lt(lst, 0) THEN Add(lst, 24) ELSE lst

\* the two normalisation loops of calculateHourAngle, for a finite angle
RECURSIVE WhileAbove(_)
WhileAbove(ha) == IF ha > 180 THEN WhileAbove(ha - 360) ELSE ha
RECURSIVE WhileBelow(_)
WhileBelow(ha) == IF ha < -180 THEN WhileBelow(ha + 360) ELSE ha

\* defined for a finite or NaN difference: the loops do not end on +-Infinity
calculateHourAngle(lst, ra) ==
    LET ha == Times(Sub(lst, ra), 15)
    IN  IF IsNaN(ha) THEN NaN ELSE WhileBelow(WhileAbove(ha))

equatorialToHorizontal(coords, loc, lst) ==
    LET decRad == degToRad(coords.dec)
        latRad == degToRad(loc.latitude)
        haRad == degToRad(calculateHourAngle(lst, coords.ra))
        sinDec == MathSin(decRad)
        cosDec == MathCos(decRad)
        sinLat == MathSin(latRad)
        cosLat == MathCos(latRad)
        cosHA == MathCos(haRad)
        sinHA == MathSin(haRad)
        sinAlt == Add(Mul(sinDec, sinLat), Mul(Mul(cosDec, cosLat), cosHA))
        altitude == radToDeg(MathAsin(sinAlt))
        y == Mul(Neg(cosDec), sinHA)
        x == Sub(Mul(sinDec, cosLat), Mul(Mul(cosDec, sinLat), cosHA))
        azimuth == radToDeg(MathAtan2(y, x))
    IN  [altitude |-> altitude, azimuth |-> normalizeAngle(azimuth)]

horizontalToCartesian(altAz, radius) ==
    LET altRad == degToRad(altAz.altitude)
        azRad == degToRad(altAz.azimuth)
        horizontalDist == MathCos(altRad)
    IN  [x |-> Times(Mul(horizontalDist, MathSin(azRad)), radius),
         y |-> Times(MathSin(altRad), radius),
         z |-> Times(Mul(Neg(horizontalDist), MathCos(azRad)), radius)]

equatorialToCartesian(coords, loc, lst, radius) ==
    LET altAz == equatorialToHorizontal(coords, loc, lst)
    IN  [position |-> horizontalToCartesian(altAz, radius), altAz |-> altAz]

calculateLocalSiderealTime(date, longitude) ==
    calculateLST(julianDateToGMST(dateToJulianDate(date)), longitude)

\* Date.prototype.getMonth() + 1 and getDate(): local time of the host
GetMonth1(t, tz) == IF ~IsFinite(t) THEN NaN ELSE CivilFromDays((t + tz) \div 24).month
GetDate(t, tz) == IF ~IsFinite(t) THEN NaN ELSE CivilFromDays((t + tz) \div 24).day

-----------------------------------------------------------------------------
(* lib/astronomy/calculations.ts: stars and deep-sky objects              *)

CELESTIAL_SPHERE_RADIUS == 100

\* the position written when a deep-sky object cannot be placed
SentinelPosition == [x |-> 0, y |-> -CELESTIAL_SPHERE_RADIUS * Unit, z |-> 0]
SentinelAltAz == [altitude |-> -90, azimuth |-> 0]

PositionIsNaN(p) == IsNaN(p.x) \/ IsNaN(p.y) \/ IsNaN(p.z)
PositionIsFinite(p) == IsFinite(p.x) /\ IsFinite(p.y) /\ IsFinite(p.z)

processStarForRendering(star, loc, date) ==
    LET lst == calculateLocalSiderealTime(date, loc.longitude)
        c == equatorialToCartesian([ra |-> star.ra, dec |-> star.dec], loc, lst,
                                   CELESTIAL_SPHERE_RADIUS)
    IN  [id |-> star.id, name |-> star.name, ra |-> star.ra, dec |-> star.dec,
         mag |-> star.mag, altAz |-> c.altAz, position |-> c.position,
         isVisible |-> Gt(c.altAz.altitude, 0)]

processStarCatalog(stars, loc, date) ==
    [i \in 1..Len(stars) |-> processStarForRendering(stars[i], loc, date)]

\* obj.magnitude || 10: the default replaces 0, NaN and a missing magnitude
MagnitudeOrDefault(m) == IF m = 0 \/ IsNaN(m) \/ m = Undefined THEN 100 ELSE m

processDeepSkyObject(obj, loc, date) ==
    IF IsNaN(obj.ra) \/ IsNaN(obj.dec)
    THEN [id |-> obj.id, altAz |-> SentinelAltAz, position |-> SentinelPosition,
          isVisible |-> FALSE, magnitude |-> MagnitudeOrDefault(obj.magnitude)]
    ELSE LET lst == calculateLocalSiderealTime(date, loc.longitude)
             c == equatorialToCartesian([ra |-> obj.ra, dec |-> obj.dec], loc, lst,
                                        CELESTIAL_SPHERE_RADIUS)
         IN  IF PositionIsNaN(c.position)
             THEN [id |-> obj.id, altAz |-> SentinelAltAz, position |-> SentinelPosition,
                   isVisible |-> FALSE, magnitude |-> MagnitudeOrDefault(obj.magnitude)]
             ELSE [id |-> obj.id, altAz |-> c.altAz, position |-> c.position,
                   isVisible |-> Gt(c.altAz.altitude, 0),
                   magnitude |-> MagnitudeOrDefault(obj.magnitude)]

-----------------------------------------------------------------------------
(* lib/data/celestialService.ts and processMeteorShower                    *)

\* radiantRA to the nearest hour, radiantDec to the nearest degree
Shower(id, sm, sd, em, ed, ra, dec) ==
    [id |-> id, start |-> [month |-> sm, day |-> sd], end |-> [month |-> em, day |-> ed],
     radiantRA |-> ra, radiantDec |-> dec]

METEOR_SHOWERS == <<
    Shower("quadrantids", 1, 1, 1, 6, 15, 50),
    Shower("lyrids", 4, 16, 4, 25, 18, 33),
    Shower("eta-aquariids", 4, 19, 5, 28, 22, -1),
    Shower("delta-aquariids", 7, 12, 8, 23, 23, -16),
    Shower("perseids", 7, 17, 8, 24, 3, 58),
    Shower("draconids", 10, 6, 10, 10, 17, 54),
    Shower("orionids", 10, 2, 11, 7, 6, 16),
    Shower("taurids", 10, 1, 11, 25, 4, 14),
    Shower("leonids", 11, 6, 11, 30, 10, 22),
    Shower("geminids", 12, 4, 12, 17, 7, 32),
    Shower("ursids", 12, 17, 12, 26, 14, 75) >>

\* name and peak of the showers of METEOR_SHOWERS, in its order
SHOWER_PEAKS == <<
    [name |-> "Quadrantids", month |-> 1, day |-> 4],
    [name |-> "Lyrids", month |-> 4, day |-> 22],
    [name |-> "Eta Aquariids", month |-> 5, day |-> 6],
    [name |-> "Delta Aquariids", month |-> 7, day |-> 30],
    [name |-> "Perseids", month |-> 8, day |-> 12],
    [name |-> "Draconids", month |-> 10, day |-> 8],
    [name |-> "Orionids", month |-> 10, day |-> 21],
    [name |-> "Taurids", month |-> 11, day |-> 5],
    [name |-> "Leonids", month |-> 11, day |-> 17],
    [name |-> "Geminids", month |-> 12, day |-> 14],
    [name |-> "Ursids", month |-> 12, day |-> 22] >>

\* the filter callback of getActiveMeteorShowers
\* the filter without the year wrap
ShowerIsActiveNoWrap(shower, month, day) ==
    LET start == shower.start
        end == shower.end
        afterStart == Gt(month, start.month) \/ (month = start.month /\ Ge(day, start.day))
        beforeEnd == Lt(month, end.month) \/ (month = end.month /\ Le(day, end.day))
    IN  afterStart /\ beforeEnd

ShowerIsActive(shower, month, day) ==
    LET start == shower.start
        end == shower.end
        afterStart == Gt(month, start.month) \/ (month = start.month /\ Ge(day, start.day))
        beforeEnd == Lt(month, end.month) \/ (month = end.month /\ Le(day, end.day))
    IN  IF start.month > end.month
        THEN afterStart \/ beforeEnd
        ELSE afterStart /\ beforeEnd

getActiveMeteorShowers(date, tz) ==
    SelectSeq(METEOR_SHOWERS,
              LAMBDA shower : ShowerIsActive(shower, GetMonth1(date, tz), GetDate(date, tz)))

\* the divisor of the azimuth formula of processMeteorShower:
\* Math.cos(latRad) * Math.cos(Math.asin(sinAlt))
RadiantHourAngle(shower, loc, date) ==
    Sub(calculateLocalSiderealTime(date, loc.longitude), shower.radiantRA)

RadiantSinAlt(shower, loc, date) ==
    Add(Mul(MathSin(Times(loc.latitude, 1)), MathSin(Times(shower.radiantDec, 1))),
        Mul(Mul(MathCos(Times(loc.latitude, 1)), MathCos(Times(shower.radiantDec, 1))),
            MathCos(Times(RadiantHourAngle(shower, loc, date), 15))))

RadiantAzimuthDivisor(shower, loc, date) ==
    Mul(MathCos(Times(loc.latitude, 1)),
        MathCos(MathAsin(RadiantSinAlt(shower, loc, date))))

\* a / b where b is a product of two cosines.  No cosine of a double is
\* exactly 0, so the division of the code never yields 0/0 or x/0: where the
\* exact divisor is 0 the double divisor is a residue of about 1e-16, and the
\* quotient is 0 for a zero numerator and beyond the clamp range otherwise.
CosineQuotient(a, b) ==
    IF IsFinite(a) /\ b = 0
    THEN (IF a = 0 THEN 0 ELSE Sign(a) * Infinity)
    ELSE Div(a, b)

RadiantCosAz(shower, loc, date) ==
    CosineQuotient(Sub(MathSin(Times(shower.radiantDec, 1)),
                       Mul(MathSin(Times(loc.latitude, 1)), RadiantSinAlt(shower, loc, date))),
                   RadiantAzimuthDivisor(shower, loc, date))

\* the azimuth from the clamped arc cosine, mirrored where sin(haRad) > 0
RadiantAzimuth(sinHa, acosAz) == IF Gt(sinHa, 0) THEN Sub(360, acosAz) ELSE acosAz

RadiantAltAz(shower, loc, date) ==
    [altitude |-> MathAsin(RadiantSinAlt(shower, loc, date)),
     azimuth |-> RadiantAzimuth(
         MathSin(Times(RadiantHourAngle(shower, loc, date), 15)),
         MathAcos(MathMax(-Unit, MathMin(Unit, RadiantCosAz(shower, loc, date)))))]

ProcessedMeteorShower(shower, isActive, altAz) ==
    [id |-> shower.id, altAz |-> altAz,
     position |-> horizontalToCartesian(altAz, CELESTIAL_SPHERE_RADIUS),
     isVisible |-> Gt(altAz.altitude, 0), isActive |-> isActive]

processMeteorShower(shower, isActive, loc, date) ==
    ProcessedMeteorShower(shower, isActive, RadiantAltAz(shower, loc, date))

-----------------------------------------------------------------------------
(* lib/astronomy/calculations.ts: Solar System bodies                      *)

MOON_VISUAL_SCALE == 50

BodyNames == << "Sun", "Moon", "Mercury", "Venus", "Mars", "Jupiter", "Saturn",
                "Uranus", "Neptune", "Pluto" >>
BodyIndex(name) == CHOOSE i \in 1..Len(BodyNames) : BodyNames[i] = name

\* astronomy-engine.  Observer and MakeTime reject a non-finite argument by
\* throwing; a call for a body throws where eph says so; the values returned
\* are those of the sky eph.sky, finite and in range as the library's are.
LibraryRejects(loc, date) ==
    ~IsFinite(loc.latitude) \/ ~IsFinite(loc.longitude) \/ ~IsFinite(date)
HorizonAnswer(name, eph) ==
    [altitude |-> ((BodyIndex(name) * 37 + eph.sky * 53) % 181) - 90,
     azimuth |-> (BodyIndex(name) * 67 + eph.sky * 101) % 360]
IlluminationAnswer(name, eph) == ((BodyIndex(name) * 29 + eph.sky * 7) % 300) - 120
MoonPhaseAnswer(eph) == (eph.sky * 97) % 360
\* x * 206265 and y * 206265 of the four moons of JupiterMoons, in arc seconds
JupiterMoonsAnswer(eph) ==
    << [x |-> 100 * eph.sky, y |-> 60], [x |-> -220, y |-> 40 * eph.sky],
       [x |-> 0, y |-> -350], [x |-> 610, y |-> 0] >>

\* the calls of getCelestialBodyPosition that throw: those of Observer,
\* MakeTime, Equator, Horizon and MoonPhase are outside a try block
BodyCallThrows(bodyName, loc, date, eph) ==
    LibraryRejects(loc, date) \/ eph.fail = bodyName

\* a body reported visible only above the horizon
getCelestialBodyPositionAboveHorizon(bodyName, loc, date, eph) ==
    IF BodyCallThrows(bodyName, loc, date, eph)
    THEN [threw |-> TRUE]
    ELSE LET altAz == HorizonAnswer(bodyName, eph)
         IN  [threw |-> FALSE,
              value |-> [name |-> bodyName, altAz |-> altAz,
                         position |-> horizontalToCartesian(altAz, CELESTIAL_SPHERE_RADIUS),
                         isVisible |-> Gt(altAz.altitude, 0),
                         magnitude |-> IF eph.noMagnitude = bodyName THEN Undefined
                                       ELSE IlluminationAnswer(bodyName, eph),
                         phase |-> IF bodyName = "Moon" THEN MoonPhaseAnswer(eph)
                                   ELSE Undefined]]

getCelestialBodyPosition(bodyName, loc, date, eph) ==
    IF BodyCallThrows(bodyName, loc, date, eph)
    THEN [threw |-> TRUE]
    ELSE LET altAz == HorizonAnswer(bodyName, eph)
         IN  [threw |-> FALSE,
              value |-> [name |-> bodyName, altAz |-> altAz,
                         position |-> horizontalToCartesian(altAz, CELESTIAL_SPHERE_RADIUS),
                         isVisible |-> TRUE,
                         magnitude |-> IF eph.noMagnitude = bodyName THEN Undefined
                                       ELSE IlluminationAnswer(bodyName, eph),
                         phase |-> IF bodyName = "Moon" THEN MoonPhaseAnswer(eph)
                                   ELSE Undefined]]

\* Math.sqrt of a non-negative integer, rounded down
RECURSIVE SqrtBetween(_, _, _)
SqrtBetween(n, lo, hi) ==
    IF lo >= hi THEN lo
    ELSE LET mid == (lo + hi + 1) \div 2
         IN  IF mid * mid <= n THEN SqrtBetween(n, mid, hi) ELSE SqrtBetween(n, lo, mid - 1)
MathSqrt(n) == SqrtBetween(n, 0, 46340)

\* the re-projection of a moon onto the sphere of radius 99.8; lengths are
\* taken in hundredths of a scene unit
ReprojectMoon(p) ==
    LET cx == RoundDiv(p.x, 100)
        cy == RoundDiv(p.y, 100)
        cz == RoundDiv(p.z, 100)
        mag == MathSqrt(cx * cx + cy * cy + cz * cz)
    IN  IF mag > 0
        THEN [x |-> RoundDiv(RoundDiv(cx * Unit, mag) * 998, 10),
              y |-> RoundDiv(RoundDiv(cy * Unit, mag) * 998, 10),
              z |-> RoundDiv(RoundDiv(cz * Unit, mag) * 998, 10)]
        ELSE p

\* one moon of the schematic view: offsetScale in scene units / Unit
MoonAt(planet, name, offsetScale, angle, magnitude) ==
    LET offsetX == Mul(MathCos(angle), offsetScale)
        offsetZ == Mul(MathSin(angle), offsetScale)
    IN  [name |-> name, altAz |-> planet.altAz,
         position |-> ReprojectMoon([x |-> planet.position.x + offsetX,
                                     y |-> planet.position.y,
                                     z |-> planet.position.z + offsetZ]),
         isVisible |-> TRUE, magnitude |-> magnitude, phase |-> Undefined]

\* moonData rows: separationArcsec and magnitude in tenths, angle in degrees
MoonRow(name, sep, mag, angle) ==
    [name |-> name, separationArcsec |-> sep, magnitude |-> mag, angle |-> angle]

\* the body shared by the five table-driven moon functions
TableMoons(planetName, moonData, boost, loc, date, eph) ==
    LET planetPos == getCelestialBodyPosition(planetName, loc, date, eph)
    IN  IF planetPos.threw THEN << >>
        ELSE [i \in 1..Len(moonData) |->
                 MoonAt(planetPos.value, moonData[i].name,
                        RoundDiv(moonData[i].separationArcsec * MOON_VISUAL_SCALE * boost
                                 * (Unit \div 10), 36000),
                        moonData[i].angle, moonData[i].magnitude)]

getJupiterMoons(loc, date, eph) ==
    IF ~IsFinite(date) THEN [threw |-> TRUE]
    ELSE LET jupiterPos == getCelestialBodyPosition("Jupiter", loc, date, eph)
             moonData == JupiterMoonsAnswer(eph)
             moonNames == << "Io", "Europa", "Ganymede", "Callisto" >>
             moonMagnitudes == << 50, 53, 46, 57 >>
         IN  IF eph.fail = "JupiterMoons" \/ jupiterPos.threw
             THEN [threw |-> FALSE, value |-> << >>]
             ELSE [threw |-> FALSE,
                   value |-> [i \in 1..4 |->
                       MoonAt(jupiterPos.value, moonNames[i],
                              RoundDiv(MathSqrt(moonData[i].x * moonData[i].x
                                                + moonData[i].y * moonData[i].y)
                                       * MOON_VISUAL_SCALE * Unit, 3600),
                              MathAtan2(moonData[i].y, moonData[i].x),
                              moonMagnitudes[i])]]

getMarsMoons(loc, date, eph) ==
    TableMoons("Mars", << MoonRow("Phobos", 120, 113, 0), MoonRow("Deimos", 300, 124, 90) >>,
               5, loc, date, eph)

getSaturnMoons(loc, date, eph) ==
    TableMoons("Saturn",
               << MoonRow("Mimas", 30, 129, 0), MoonRow("Enceladus", 40, 117, 30),
                  MoonRow("Tethys", 50, 102, 60), MoonRow("Dione", 60, 104, 90),
                  MoonRow("Rhea", 80, 97, 120), MoonRow("Titan", 220, 83, 150),
                  MoonRow("Iapetus", 600, 102, 180) >>,
               1, loc, date, eph)

getUranusMoons(loc, date, eph) ==
    TableMoons("Uranus",
               << MoonRow("Miranda", 30, 158, 0), MoonRow("Ariel", 40, 142, 36),
                  MoonRow("Umbriel", 50, 148, 72), MoonRow("Titania", 80, 137, 108),
                  MoonRow("Oberon", 100, 139, 144) >>,
               1, loc, date, eph)

getNeptuneMoons(loc, date, eph) ==
    TableMoons("Neptune", << MoonRow("Triton", 150, 135, 0), MoonRow("Nereid", 2200, 187, 90) >>,
               1, loc, date, eph)

getPlutoMoons(loc, date, eph) ==
    TableMoons("Pluto",
               << MoonRow("Charon", 8, 168, 0), MoonRow("Nix", 20, 234, 45),
                  MoonRow("Hydra", 25, 233, 90), MoonRow("Kerberos", 15, 261, 135),
                  MoonRow("Styx", 12, 270, 180) >>,
               3, loc, date, eph)

\* bodies.map(...) stops at the first call that throws
AllBodiesThrows(loc, date, eph) ==
    \E i \in 1..Len(BodyNames) : BodyCallThrows(BodyNames[i], loc, date, eph)

getAllCelestialBodies(loc, date, eph) ==
    LET planets == [i \in 1..Len(BodyNames) |->
                       getCelestialBodyPosition(BodyNames[i], loc, date, eph)]
        jupiterMoons == getJupiterMoons(loc, date, eph)
    IN  IF AllBodiesThrows(loc, date, eph) \/ jupiterMoons.threw
        THEN [threw |-> TRUE]
        ELSE [threw |-> FALSE,
              value |-> [i \in 1..Len(BodyNames) |-> planets[i].value]
                        \o getMarsMoons(loc, date, eph)
                        \o jupiterMoons.value
                        \o getSaturnMoons(loc, date, eph)
                        \o getUranusMoons(loc, date, eph)
                        \o getNeptuneMoons(loc, date, eph)
                        \o getPlutoMoons(loc, date, eph)]

-----------------------------------------------------------------------------
(* processConstellation                                                    *)

\* String.prototype.toLowerCase on the names of the catalogs below
ToLowerCase(name) ==
    CASE name = "Polaris" -> "polaris"
      [] name = "POLARIS" -> "polaris"
      [] name = "Kochab" -> "kochab"
      [] name = "Sirius" -> "sirius"
      [] name = "Mirzam" -> "mirzam"
      [] OTHER -> name

\* starMap.get(name.toLowerCase()): the last star set under the key, or none
StarMapHas(stars, name) ==
    \E i \in 1..Len(stars) : ToLowerCase(stars[i].name) = ToLowerCase(name)
StarMapGet(stars, name) ==
    LET last == CHOOSE i \in 1..Len(stars) :
                    /\ ToLowerCase(stars[i].name) = ToLowerCase(name)
                    /\ \A j \in (i + 1)..Len(stars) :
                           ToLowerCase(stars[j].name) # ToLowerCase(name)
    IN  stars[last]

processConstellation(constellation, stars, loc, date) ==
    LET lst == calculateLocalSiderealTime(date, loc.longitude)
        drawn == SelectSeq(constellation.lines,
                           LAMBDA l : StarMapHas(stars, l[1]) /\ StarMapHas(stars, l[2]))
        lines == [i \in 1..Len(drawn) |->
                     [start |-> StarMapGet(stars, drawn[i][1]).position,
                      end |-> StarMapGet(stars, drawn[i][2]).position]]
        visibleLineCount ==
            Cardinality({i \in 1..Len(drawn) :
                            /\ StarMapGet(stars, drawn[i][1]).isVisible
                            /\ StarMapGet(stars, drawn[i][2]).isVisible})
        c == equatorialToCartesian([ra |-> constellation.centerRA,
                                    dec |-> constellation.centerDec],
                                   loc, lst, CELESTIAL_SPHERE_RADIUS)
    IN  [name |-> constellation.name, lines |-> lines, labelPosition |-> c.position,
         isVisible |-> Gt(c.altAz.altitude, 0) /\ visibleLineCount > 0]

-----------------------------------------------------------------------------
(* getUpcomingAstronomyEvents.  Astronomy.SearchMoonPhase and              *)
(* Astronomy.Seasons are the library's: the model takes their answers as   *)
(* inputs, the hours from baseDate to the next new moon and the hour of    *)
(* the day at which the seasons begin                                      *)

AstronomicalEvent(name, date, type) == [name |-> name, date |-> date, type |-> type]

\* baseDate.getFullYear(), new Date(y, month, day): the host's local time
GetFullYear(t, tz) == CivilFromDays((t + tz) \div 24).year
LocalMidnight(y, m, d, tz) == MakeDate(y, m, d, 0) - tz

\* date >= baseDate && date.getTime() <= baseDate.getTime() + daysAhead * 86400000
InWindow(date, baseDate, daysAhead) == date >= baseDate /\ date <= baseDate + daysAhead * 24

\* the phases, a quarter of a synodic month (709 hours) apart, and what
\* SearchMoonPhase(angle, time, daysAhead) finds: none beyond daysAhead
MoonPhases == << "New Moon", "First Quarter", "Full Moon", "Last Quarter" >>
NextPhase(k, baseDate, newMoon) == baseDate + ((newMoon + (k - 1) * 177) % 709)
MoonPhaseFound(k, baseDate, daysAhead, newMoon) ==
    NextPhase(k, baseDate, newMoon) - baseDate <= daysAhead * 24
MoonEvents(baseDate, daysAhead, newMoon) ==
    [i \in 1..Len(SelectSeq(<<1, 2, 3, 4>>,
                            LAMBDA k : MoonPhaseFound(k, baseDate, daysAhead, newMoon))) |->
        AstronomicalEvent(
            MoonPhases[SelectSeq(<<1, 2, 3, 4>>,
                                 LAMBDA k : MoonPhaseFound(k, baseDate, daysAhead, newMoon))[i]],
            NextPhase(SelectSeq(<<1, 2, 3, 4>>,
                                LAMBDA k : MoonPhaseFound(k, baseDate, daysAhead, newMoon))[i],
                      baseDate, newMoon),
            "moon")]

\* the peaks, month counted from 1, this year and the next for each shower
PeakShowers ==
    << [name |-> "Quadrantids Peak", month |-> 1, day |-> 3],
       [name |-> "Lyrids Peak", month |-> 4, day |-> 22],
       [name |-> "Perseids Peak", month |-> 8, day |-> 12],
       [name |-> "Orionids Peak", month |-> 10, day |-> 21],
       [name |-> "Leonids Peak", month |-> 11, day |-> 17],
       [name |-> "Geminids Peak", month |-> 12, day |-> 14] >>
PeakDate(j, year, tz) ==
    LocalMidnight(year + ((j - 1) % 2), PeakShowers[(j + 1) \div 2].month,
                  PeakShowers[(j + 1) \div 2].day, tz)
PeaksInWindow(baseDate, daysAhead, tz) ==
    SelectSeq([j \in 1..(2 * Len(PeakShowers)) |-> j],
              LAMBDA j : InWindow(PeakDate(j, GetFullYear(baseDate, tz), tz),
                                  baseDate, daysAhead))
MeteorEvents(baseDate, daysAhead, tz) ==
    [i \in 1..Len(PeaksInWindow(baseDate, daysAhead, tz)) |->
        AstronomicalEvent(
            PeakShowers[(PeaksInWindow(baseDate, daysAhead, tz)[i] + 1) \div 2].name,
            PeakDate(PeaksInWindow(baseDate, daysAhead, tz)[i], GetFullYear(baseDate, tz), tz),
            "meteor")]

\* Astronomy.Seasons(baseDate.getFullYear()), the four at the same hour of
\* the day
SeasonEvents(year, hour) ==
    << AstronomicalEvent("March Equinox", MakeDate(year, 3, 20, hour), "conjunction"),
       AstronomicalEvent("June Solstice", MakeDate(year, 6, 20, hour), "conjunction"),
       AstronomicalEvent("Sept Equinox", MakeDate(year, 9, 22, hour), "conjunction"),
       AstronomicalEvent("Dec Solstice", MakeDate(year, 12, 21, hour), "conjunction") >>
SeasonsInWindow(baseDate, daysAhead, tz, hour) ==
    SelectSeq(SeasonEvents(GetFullYear(baseDate, tz), hour),
              LAMBDA e : InWindow(e.date, baseDate, daysAhead))

\* the events in the order in which they are pushed
PushedEvents(baseDate, daysAhead, tz, newMoon, hour) ==
    MoonEvents(baseDate, daysAhead, newMoon)
    \o MeteorEvents(baseDate, daysAhead, tz)
    \o SeasonsInWindow(baseDate, daysAhead, tz, hour)

\* the least of the sort keys
MinKey(keys) == CHOOSE k \in keys : \A j \in keys : k <= j

\* events.sort((a, b) => a.date.getTime() - b.date.getTime()): a stable sort
RECURSIVE SortedByDates(_, _)
SortedByDates(events, dates) ==
    IF dates = {} THEN << >>
    ELSE SelectSeq(events, LAMBDA e : e.date = MinKey(dates))
         \o SortedByDates(events, dates \ {MinKey(dates)})
SortByInstant(events) == SortedByDates(events, { events[i].date : i \in 1..Len(events) })

\* the events as pushed
getUpcomingAstronomyEventsUnsorted(baseDate, daysAhead, tz, newMoon, hour) ==
    PushedEvents(baseDate, daysAhead, tz, newMoon, hour)

getUpcomingAstronomyEvents(baseDate, daysAhead, tz, newMoon, hour) ==
    SortByInstant(PushedEvents(baseDate, daysAhead, tz, newMoon, hour))

-----------------------------------------------------------------------------
(* Catalogs                                                                *)

Star(id, name, ra, dec, mag) == [id |-> id, name |-> name, ra |-> ra, dec |-> dec, mag |-> mag]

\* a catalog as parseHYGData returns it, brightest first; the fourth star
\* culminates at the zenith of latitude 8, the last has the declination
\* parseFloat gives for "1e999"
HygCatalog == << Star(1, "Sirius", 7, -17, -15), Star(2, "Polaris", 3, 89, 20),
                 Star(3, "Kochab", 15, 74, 21), Star(4, "HIP 4", 6, 8, 30),
                 Star(5, "HIP 5", 12, Infinity, 40), Star(6, "Mirzam", 6, -18, 60) >>
\* the bundled stars.json
FallbackCatalog == << Star(1, "Sirius", 7, -17, -15), Star(2, "POLARIS", 3, 89, 20) >>
\* a catalog in which two stars have the same name but for the case
TwinCatalog == << Star(2, "Polaris", 3, 89, 20), Star(3, "Kochab", 15, 74, 21),
                  Star(7, "POLARIS", 9, -30, 55) >>

CONSTELLATIONS == <<
    [name |-> "Ursa Minor", lines |-> << <<"Polaris", "Kochab">> >>,
     centerRA |-> 15, centerDec |-> 75],
    [name |-> "Canis Major", lines |-> << <<"Sirius", "Mirzam">> >>,
     centerRA |-> 7, centerDec |-> -22] >>

DeepSky(id, ra, dec, magnitude) == [id |-> id, ra |-> ra, dec |-> dec, magnitude |-> magnitude]

MESSIER_CATALOG == << DeepSky("M31", 1, 41, 34), DeepSky("M42", 6, -5, 40) >>

\* what fetchAllDeepSky resolves to: an object at the zenith of latitude 8,
\* a row without right ascension, a row without magnitude
ExtendedCatalog == << DeepSky("NGC 2244", 6, 8, 48), DeepSky("NGC 1", NaN, 27, 60),
                      DeepSky("NGC 5128", 13, -43, Undefined) >>

-----------------------------------------------------------------------------
(* app/page.tsx: the memos of HomeContent                                  *)

\* the list without the test of the position
processedStarsByMagnitude ==
    IF Len(starCatalog) = 0 THEN << >>
    ELSE LET magLimit == Sub(65, Over(Times(lightPollution, 35), 10))
             stars == processStarCatalog(starCatalog, location, dateTime)
         IN  SelectSeq(stars, LAMBDA s : Le(s.mag, magLimit))

processedStars ==
    IF Len(starCatalog) = 0 THEN << >>
    ELSE LET magLimit == Sub(65, Over(Times(lightPollution, 35), 10))
             stars == processStarCatalog(starCatalog, location, dateTime)
         IN  SelectSeq(stars,
                 LAMBDA s : /\ Le(s.mag, magLimit)
                            /\ ~IsNaN(s.position.x)
                            /\ ~IsNaN(s.position.y)
                            /\ ~IsNaN(s.position.z)
                            /\ IsFinite(s.position.x)
                            /\ IsFinite(s.position.y)
                            /\ IsFinite(s.position.z))

celestialBodies == getAllCelestialBodies(location, dateTime, ephem)

processedConstellations ==
    IF Len(processedStars) = 0 THEN << >>
    ELSE [i \in 1..Len(CONSTELLATIONS) |->
             processConstellation(CONSTELLATIONS[i], processedStars, location, dateTime)]

processedDeepSky ==
    [i \in 1..Len(MESSIER_CATALOG) |->
        processDeepSkyObject(MESSIER_CATALOG[i], location, dateTime)]

processedExtendedDeepSky ==
    [i \in 1..Len(extendedDeepSky) |->
        processDeepSkyObject([extendedDeepSky[i] EXCEPT
                                 !.magnitude = MagnitudeOrDefault(extendedDeepSky[i].magnitude)],
                             location, dateTime)]

allDeepSky ==
    LET combined == processedDeepSky \o processedExtendedDeepSky
        magLimit == Sub(70, Over(Times(lightPollution, 40), 10))
    IN  SelectSeq(combined,
            LAMBDA obj : /\ Le(obj.magnitude, magLimit)
                         /\ ~IsNaN(obj.position.x)
                         /\ ~IsNaN(obj.position.y)
                         /\ ~IsNaN(obj.position.z)
                         /\ IsFinite(obj.position.x)
                         /\ IsFinite(obj.position.y)
                         /\ IsFinite(obj.position.z))

activeMeteorShowers ==
    LET active == getActiveMeteorShowers(dateTime, timeZone)
    IN  [i \in 1..Len(active) |-> processMeteorShower(active[i], TRUE, location, dateTime)]

allMeteorShowers ==
    LET active == getActiveMeteorShowers(dateTime, timeZone)
    IN  [i \in 1..Len(METEOR_SHOWERS) |->
            processMeteorShower(METEOR_SHOWERS[i],
                                \E j \in 1..Len(active) : active[j].id = METEOR_SHOWERS[i].id,
                                location, dateTime)]

\* a render of HomeContent runs the memos in order; the one memo that can
\* throw is celestialBodies, and a render that throws hands nothing over and
\* unmounts the page
RenderThrows == AllBodiesThrows(location, dateTime, ephem)

\* the scene a render that returns hands to StarCanvas
StarCanvasProps ==
    [stars |-> processedStars, constellations |-> processedConstellations,
     planets |-> celestialBodies.value, deepSkyObjects |-> allDeepSky]

-----------------------------------------------------------------------------
(* The satellite layer                                                     *)

SATELLITES == << "ISS (ZARYA)", "HST" >>

\* satellite.js: SGP4 reports a failure for an instant at which the orbit of
\* the element set has decayed ("These degrade over time")
TleDecayed == MakeDate(2030, 1, 1, 0)
PropagationFails(date) == date >= TleDecayed

\* const R = 90 of getSatelliteSkyPosition
SatelliteSphereRadius == 90

\* lookAngles: azimuth and elevation in units of pi/180 rad
getSatelliteSkyPosition(lookAngles) ==
    LET az == lookAngles.azimuth
        el == lookAngles.elevation
    IN  [x |-> SatelliteSphereRadius * Mul(MathCos(el), MathSin(az)),
         y |-> SatelliteSphereRadius * MathSin(el),
         z |-> -SatelliteSphereRadius * Mul(MathCos(el), MathCos(az))]

\* a child of the group as three.js creates it
NewChild == [position |-> [x |-> 0, y |-> 0, z |-> 0], visible |-> TRUE]

-----------------------------------------------------------------------------
(* Inputs                                                                  *)

GeoLocation(lat, lon) == [latitude |-> lat, longitude |-> lon]

DEFAULT_LOCATION == GeoLocation(38, -122)

\* what the location form and the lat, lon parameters of a URL can hold:
\* parseFloat gives NaN for a text that is no number
TypedLocations ==
    { DEFAULT_LOCATION, GeoLocation(8, 0), GeoLocation(16, 0), GeoLocation(-90, -122),
      GeoLocation(NaN, 0) }

\* 2024-01-18 03:00, 2024-10-21 04:00 (sidereal time 6 h at Greenwich) and
\* 2034-06-01 13:00 UTC
Instants == { MakeDate(2024, 1, 18, 3), MakeDate(2024, 10, 21, 4), MakeDate(2034, 6, 1, 13) }

LightPollutions == { 2, 10 }

HostTimeZones == { 0 }

EphemerisAnswers ==
    { [fail |-> "none", noMagnitude |-> "none", sky |-> 1],
      [fail |-> "none", noMagnitude |-> "Pluto", sky |-> 2],
      [fail |-> "JupiterMoons", noMagnitude |-> "none", sky |-> 1],
      [fail |-> "Mars", noMagnitude |-> "none", sky |-> 1] }

\* elevations satellite.js reports, in units of pi/180 rad
Elevations == { -30, 0, 30 }

-----------------------------------------------------------------------------
(* Handlers                                                                *)

Mounted == ~RenderThrows

\* hooks/useUrlState.ts, the effect run on mount, before a load resolves and
\* before the first frame
RestoreUrlState ==
    /\ Mounted
    /\ isLoadingStars
    /\ Len(extendedDeepSky) = 0
    /\ Len(satChildren) = 0
    /\ \E loc \in TypedLocations \cup {location},
          t \in Instants \cup {InvalidDate, dateTime},
          lp \in LightPollutions \cup {lightPollution} :
            /\ location' = loc
            /\ dateTime' = t
            /\ lightPollution' = lp
    /\ UNCHANGED <<starCatalog, isLoadingStars, extendedDeepSky, ephem, timeZone, satVars,
                   probeVars, loadVars, uiVars>>

\* Controls.handleLocationSubmit
handleLocationSubmit ==
    /\ Mounted
    /\ \E loc \in TypedLocations :
          LET lat == loc.latitude
              lng == loc.longitude
          IN  IF ~IsNaN(lat) /\ ~IsNaN(lng) /\ Ge(lat, -90) /\ Le(lat, 90)
                 /\ Ge(lng, -180) /\ Le(lng, 180)
              THEN location' = loc
              ELSE UNCHANGED location
    /\ UNCHANGED <<ephem, dateTime, lightPollution, starCatalog, isLoadingStars, extendedDeepSky,
                   timeZone, satVars, probeVars, loadVars, uiVars>>

\* the positions navigator.geolocation answers with
GeoPositions == { GeoLocation(8, 0), GeoLocation(-90, -122) }

\* handleRequestGeolocation and the callback getCurrentPosition calls: the success
\* callback with a position, or the error callback
handleRequestGeolocation ==
    /\ Mounted
    /\ \E error \in BOOLEAN, position \in GeoPositions :
          IF error THEN UNCHANGED location
          ELSE location' = GeoLocation(position.latitude, position.longitude)
    /\ UNCHANGED <<ephem, dateTime, lightPollution, starCatalog, isLoadingStars, extendedDeepSky,
                   timeZone, satVars, probeVars, loadVars, uiVars>>

\* Controls.handleDateTimeChange
handleDateTimeChange ==
    /\ Mounted
    /\ \E newDate \in Instants \cup {InvalidDate} :
          IF ~IsNaN(newDate)
          THEN dateTime' = newDate
          ELSE UNCHANGED dateTime
    /\ UNCHANGED <<ephem, location, lightPollution, starCatalog, isLoadingStars, extendedDeepSky,
                   timeZone, satVars, probeVars, loadVars, uiVars>>

\* the light pollution slider
onLightPollutionChange ==
    /\ Mounted
    /\ lightPollution' \in LightPollutions
    /\ UNCHANGED <<location, dateTime, starCatalog, isLoadingStars, extendedDeepSky, ephem,
                   timeZone, satVars, probeVars, loadVars, uiVars>>

\* the resolution of loadStars: fetchStarCatalog gives the parsed catalog, an
\* empty one, or the bundled fallback
loadStars ==
    /\ Mounted
    /\ isLoadingStars
    /\ starCatalog' \in { HygCatalog, FallbackCatalog, << >> }
    /\ isLoadingStars' = FALSE
    /\ UNCHANGED <<location, dateTime, lightPollution, extendedDeepSky, ephem, timeZone,
                   satVars, probeVars, loadVars, uiVars>>

\* fetchAllDeepSky(...).then(setExtendedDeepSky)
loadExtendedDeepSky ==
    /\ Mounted
    /\ Len(extendedDeepSky) = 0
    /\ extendedDeepSky' = ExtendedCatalog
    /\ UNCHANGED <<location, dateTime, lightPollution, starCatalog, isLoadingStars, ephem,
                   timeZone, satVars, probeVars, loadVars, uiVars>>

\* Satellites: the useFrame callback, run before every frame is drawn.  The
\* children exist from the first frame on.
\* a satellite on the horizon shown
FrameChildAtHorizon(child, fails, el, az) ==
    IF fails
    THEN [child EXCEPT !.visible = FALSE]
    ELSE LET pos == getSatelliteSkyPosition([azimuth |-> az, elevation |-> el])
         IN  [position |-> pos, visible |-> pos.y >= 0]

FrameChild(child, fails, el, az) ==
    IF fails
    THEN [child EXCEPT !.visible = FALSE]
    ELSE LET pos == getSatelliteSkyPosition([azimuth |-> az, elevation |-> el])
         IN  [position |-> pos, visible |-> pos.y > 0]

useFrame ==
    /\ Mounted
    /\ \E els \in [1..Len(SATELLITES) -> Elevations] :
          satChildren' =
              [i \in 1..Len(SATELLITES) |->
                  FrameChild(IF Len(satChildren) = 0 THEN NewChild ELSE satChildren[i],
                             PropagationFails(dateTime), els[i], 90 * i)]
    /\ satFailed' = IF PropagationFails(dateTime) THEN 1..Len(SATELLITES) ELSE satFailed
    /\ UNCHANGED <<pageVars, probeVars, loadVars, uiVars>>

-----------------------------------------------------------------------------
(* The star catalog service (fetchStarCatalog, parseHYGData).  A CSV text  *)
(* is the sequence of its lines, a line the sequence of its fields as      *)
(* parseCSVLine returns them; a blank line has no field                    *)

\* fields[k] for a JavaScript index k: undefined outside the array
NoField == "undefined"
FieldAt(fields, k) == IF k + 1 \in 1..Len(fields) THEN fields[k + 1] ELSE NoField

\* header.indexOf(name): a JavaScript index, -1 when absent
IndexOf(header, name) ==
    IF \E k \in 1..Len(header) : header[k] = name
    THEN (CHOOSE k \in 1..Len(header) :
              header[k] = name /\ \A j \in 1..(k - 1) : header[j] # name) - 1
    ELSE -1

\* parseFloat of the numerals the texts below use, in tenths: the value of
\* the longest numeric prefix, Infinity for "Infinity", NaN where the field
\* starts with no number (and for undefined)
FloatTexts ==
    { <<"-1.5", -15>>, <<"0", 0>>, <<"2.0", 20>>, <<"3", 30>>, <<"3.5abc", 35>>,
      <<"5.2", 52>>, <<"6.0", 60>>, <<"6.1", 61>>, <<"7", 70>>, <<"12", 120>>,
      <<"-17", -170>>, <<"89", 890>>, <<"Infinity", Infinity>>,
      <<"-Infinity", -Infinity>> }
ParseFloat(field) ==
    IF \E p \in FloatTexts : p[1] = field
    THEN (CHOOSE p \in FloatTexts : p[1] = field)[2]
    ELSE NaN

\* parseInt of the id numerals the texts below use
IntTexts == { <<"1", 1>>, <<"2", 2>>, <<"3", 3>>, <<"4", 4>>, <<"0", 0>> }
ParseInt(field) ==
    IF \E p \in IntTexts : p[1] = field
    THEN (CHOOSE p \in IntTexts : p[1] = field)[2]
    ELSE NaN

\* x || y for a number x: y when x is NaN or 0.  s || t for a string s
NumberOr(x, y) == IF IsNaN(x) \/ x = 0 THEN y ELSE x
StringOr(str, other) == IF str = NoField \/ str = "" THEN other ELSE str

\* Naked eye visibility limit, in tenths
MAX_MAGNITUDE == 60

RowMag(header, fields) == ParseFloat(FieldAt(fields, IndexOf(header, "mag")))
\* the model counts right ascension in hours and declination in degrees
RowRa(header, fields) == Over(ParseFloat(FieldAt(fields, IndexOf(header, "ra"))), 10)
RowDec(header, fields) == Over(ParseFloat(FieldAt(fields, IndexOf(header, "dec"))), 10)

\* the tests that let a line through: not blank, three numbers, not too dim
RowPushed(header, fields) ==
    /\ Len(fields) > 0
    /\ ~(IsNaN(RowMag(header, fields)) \/ IsNaN(RowRa(header, fields))
         \/ IsNaN(RowDec(header, fields)))
    /\ ~Gt(RowMag(header, fields), MAX_MAGNITUDE)

\* proper name, or Bayer-Flamsteed, or `HIP ${id}`
RowName(header, fields) ==
    StringOr(FieldAt(fields, IndexOf(header, "proper")),
             StringOr(FieldAt(fields, IndexOf(header, "bf")),
                      "HIP " \o FieldAt(fields, IndexOf(header, "id"))))

\* the record pushed for lines[i], i the JavaScript index of the line
RowStar(header, fields, i) ==
    Star(NumberOr(ParseInt(FieldAt(fields, IndexOf(header, "id"))), i),
         RowName(header, fields), RowRa(header, fields), RowDec(header, fields),
         RowMag(header, fields))

\* the stars pushed by the loop over lines[1..], in the order of the lines
PushedLines(lines) ==
    SelectSeq([k \in 1..(Len(lines) - 1) |-> k + 1],
              LAMBDA k : RowPushed(lines[1], lines[k]))
PushedStars(lines, pushed) ==
    [k \in 1..Len(pushed) |-> RowStar(lines[1], lines[pushed[k]], pushed[k] - 1)]

\* stars.sort((a, b) => a.mag - b.mag): a stable sort; a difference that is
\* NaN (two magnitudes -Infinity) counts as 0
RECURSIVE SortedByKeys(_, _)
SortedByKeys(stars, keys) ==
    IF keys = {} THEN << >>
    ELSE SelectSeq(stars, LAMBDA s : s.mag = MinKey(keys))
         \o SortedByKeys(stars, keys \ {MinKey(keys)})
SortByMagnitude(stars) == SortedByKeys(stars, { stars[i].mag : i \in 1..Len(stars) })

\* the stars in the order of the lines
parseHYGDataUnsorted(lines) ==
    IF Len(lines) < 2 THEN << >> ELSE PushedStars(lines, PushedLines(lines))

parseHYGData(lines) ==
    IF Len(lines) < 2 THEN << >>
    ELSE SortByMagnitude(PushedStars(lines, PushedLines(lines)))

\* the stars of the large text beyond CacheableLength
LargeExcess == 1

\* the header of the HYG file (the columns read) and a line of it
HygHeader == <<"id", "bf", "proper", "ra", "dec", "mag", "spect">>
HygRow(id, bf, proper, ra, dec, mag) == <<id, bf, proper, ra, dec, mag, "G2">>
BlankLine == << >>

\* stars.length > 1000, data.length > 1000
CacheableLength == 1000

\* a text with n lines that parse: one with an infinite declination, one too
\* dim, and n - 1 lines of three magnitudes in turn
BulkLine(k) ==
    HygRow("4", "Bulk", "", "7", "-17",
           IF k % 3 = 0 THEN "5.2" ELSE IF k % 3 = 1 THEN "2.0" ELSE "6.0")
BulkText(n) ==
    [k \in 1..(n + 2) |->
        IF k = 1 THEN HygHeader
        ELSE IF k = 2 THEN HygRow("3", "", "Far", "12", "Infinity", "5.2")
        ELSE IF k = 3 THEN HygRow("2", "", "Dim", "12", "0", "6.1")
        ELSE BulkLine(k)]

\* the bodies fetch(HYG_URL) may answer with
TextNames == { "empty", "foreign", "dim", "small", "threshold", "large" }
HygText(name) ==
    CASE name = "empty" -> << BlankLine >>
      [] name = "foreign" -> << <<"name", "x", "y">>, <<"Sirius", "7", "-17">> >>
      [] name = "dim" -> << HygHeader, HygRow("1", "", "Dim", "12", "0", "6.1"),
                            HygRow("2", "", "None", "12", "0", "N/A"), BlankLine >>
      [] name = "small" ->
            << HygHeader,
               HygRow("3", "", "Mirzam", "7", "-17", "6.0"),
               BlankLine,
               HygRow("1", "", "Sirius", "7", "-17", "-1.5"),
               HygRow("2", "Alp UMi", "", "3", "89", "2.0"),
               HygRow("4", "", "Dim", "12", "0", "6.1"),
               HygRow("", "", "", "12", "0", "3.5abc"),
               HygRow("0", "", "NoRa", "", "0", "2.0"),
               HygRow("4", "", "Twin", "3", "89", "2.0"),
               HygRow("1", "", "Low", "12", "0", "-Infinity") >>
      [] name = "threshold" -> BulkText(CacheableLength)
      [] name = "large" -> BulkText(CacheableLength + LargeExcess)

\* JSON.parse(JSON.stringify(stars)): a number that is not finite comes back
\* as null
Null == 999999996
JsonNumber(x) == IF IsFinite(x) THEN x ELSE Null
JsonRoundTrip(stars) ==
    [i \in 1..Len(stars) |->
        Star(JsonNumber(stars[i].id), stars[i].name, JsonNumber(stars[i].ra),
             JsonNumber(stars[i].dec), JsonNumber(stars[i].mag))]

\* the item under CACHE_KEY: none, a text JSON.parse rejects, or an array
CorruptItem == [kind |-> "corrupt"]
JsonItem(stars) == [kind |-> "json", data |-> JsonRoundTrip(stars)]
CacheHit(item) == item.kind = "json" /\ Len(item.data) > CacheableLength

\* the item after a parse: stored when the catalog is long enough and
\* localStorage.setItem does not throw
CacheAfterParseNever(item, stars, setItemOk) == item
CacheAfterParse(item, stars, setItemOk) ==
    IF Len(stars) > CacheableLength /\ setItemOk THEN JsonItem(stars) ELSE item

\* fetchStarCatalog up to its first await: the cached array, or a request
\* (before: the item found, kept for the properties)
FetchStarted(item) ==
    IF CacheHit(item)
    THEN [pc |-> "done", source |-> "cache", requested |-> FALSE,
          value |-> item.data, text |-> "none", setItemOk |-> FALSE, before |-> item]
    ELSE [pc |-> "fetching", source |-> "none", requested |-> TRUE,
          value |-> << >>, text |-> "none", setItemOk |-> FALSE, before |-> item]

\* what the network and localStorage do to one request: a body, a status
\* that is not ok, or a rejected fetch; setItem may throw
HygAnswers ==
    { [kind |-> "ok", text |-> t, setItemOk |-> TRUE] : t \in TextNames }
    \cup { [kind |-> "ok", text |-> "large", setItemOk |-> FALSE],
           [kind |-> "status", text |-> "none", setItemOk |-> TRUE],
           [kind |-> "error", text |-> "none", setItemOk |-> TRUE] }

\* fetchStarCatalog after the answer: the parsed stars, or the bundled
\* catalog from the catch block
FetchResolved(fetch, answer) ==
    IF answer.kind = "ok"
    THEN [fetch EXCEPT !.pc = "done", !.source = "network",
                       !.value = parseHYGData(HygText(answer.text)),
                       !.text = answer.text, !.setItemOk = answer.setItemOk]
    ELSE [fetch EXCEPT !.pc = "done", !.source = "fallback",
                       !.value = FallbackCatalog]

\* what fetchNearEarthAsteroids resolves to when NASA answers
AsteroidSample == << [id |-> "2000433", name |-> "433 Eros"] >>

\* the items of the asteroid and deep-sky services: { data, timestamp }; how
\* old the timestamp is shows when the item is read
TimedItem(data) == [kind |-> "json", data |-> data]
TimedHit(item, fresh) == item.kind = "json" /\ fresh

\* no item under the key; no call made
NoItem == [kind |-> "none"]
NoFetch == [pc |-> "idle"]
NoStorage == [stars |-> NoItem, asteroids |-> NoItem, deepSky |-> NoItem]

\* the loads as they are before the effects of the first render run
\* the tour closed and the animation not started
NoTour == [isActive |-> FALSE, currentIndex |-> 0, stars |-> << >>, planets |-> << >>,
           rendered |-> "null", lookAt |-> "none"]
NoAnim == [pc |-> "idle"]

LoadsIdle ==
    /\ tour = NoTour
    /\ anim = NoAnim
    /\ asteroids = << >>
    /\ unmounted = FALSE
    /\ storage = NoStorage
    /\ starFetch = NoFetch
    /\ deepSkyFetch = "idle"
    /\ asteroidFetch = "idle"

Init ==
    /\ location = DEFAULT_LOCATION
    /\ dateTime \in Instants
    /\ lightPollution = 2
    /\ starCatalog = << >>
    /\ isLoadingStars = TRUE
    /\ extendedDeepSky = << >>
    /\ ephem \in EphemerisAnswers
    /\ timeZone \in HostTimeZones
    /\ satChildren = << >>
    /\ satFailed = {}
    /\ probe = << >>
    /\ result = << >>
    /\ LoadsIdle

Next ==
    \/ RestoreUrlState
    \/ handleLocationSubmit
    \/ handleRequestGeolocation
    \/ handleDateTimeChange
    \/ onLightPollutionChange
    \/ loadStars
    \/ loadExtendedDeepSky
    \/ useFrame

Spec == Init /\ [][Next]_vars

-----------------------------------------------------------------------------
(* lib/astronomy/asteroids.ts                                              *)

\* a and e in thousandths, ma in thousandths of a degree, n in thousandths of a
\* degree per day, epoch in hours (24 * JD)
OrbitalElements(a, e, ma, n, epoch) == [a |-> a, e |-> e, ma |-> ma, n |-> n, epoch |-> epoch]

MAJOR_ASTEROIDS ==
    << [name |-> "1 Ceres", elements |-> OrbitalElements(2766, 76, 77370, 214, 58837080)],
       [name |-> "4 Vesta", elements |-> OrbitalElements(2362, 89, 20260, 271, 58837080)],
       [name |-> "2 Pallas", elements |-> OrbitalElements(2773, 231, 59860, 213, 58837080)],
       [name |-> "3 Juno", elements |-> OrbitalElements(2671, 255, 34540, 226, 58837080)] >>

\* date.getTime() / 86400000 + 2440587.5, in hours
JulianDateOfTime(date) == Add(date, 58574100)

\* M = elements.ma + elements.n * dt; M = M % 360, in thousandths of a degree
MeanAnomaly(elements, date) ==
    IF ~IsFinite(date) THEN NaN
    ELSE JsMod(elements.ma
                 + RoundDiv(elements.n * (JulianDateOfTime(date) - elements.epoch), 24),
               360000)

\* e * Math.sin(E) for E in thousandths of a degree, in thousandths of a degree
EccentricTerm(e, E) ==
    RoundDiv(RoundDiv(e * MathSin(RoundDiv(E, 1000)), 100) * 573, 1000)

\* E = M + e * Math.sin(E)
FixedPointStep(el, M, E) == IF ~IsFinite(M) THEN NaN ELSE M + EccentricTerm(el.e, E)

\* the values of E after each pass of the loop for (let k = 0; k < 10; k++)
RECURSIVE KeplerLoop(_, _, _, _)
KeplerLoop(el, M, E, k) ==
    IF k < 10 THEN <<FixedPointStep(el, M, E)>>
                       \o KeplerLoop(el, M, FixedPointStep(el, M, E), k + 1)
    ELSE << >>

\* solveKepler as far as the eccentric anomaly: M, the iterates and E
solveKepler(el, M_deg) ==
    [M |-> M_deg, iterates |-> KeplerLoop(el, M_deg, M_deg, 0),
     E |-> KeplerLoop(el, M_deg, M_deg, 0)[10]]

calculateAsteroidPositions(date) ==
    [i \in 1..Len(MAJOR_ASTEROIDS) |->
        [name |-> MAJOR_ASTEROIDS[i].name,
         solved |-> solveKepler(MAJOR_ASTEROIDS[i].elements,
                                MeanAnomaly(MAJOR_ASTEROIDS[i].elements, date))]]

-----------------------------------------------------------------------------
(* findBestViewDirection                                                   *)

\* a / b of two numbers of the same scale, to the nearest whole number
Ratio(a, b) ==
    IF IsNaN(a) \/ IsNaN(b) THEN NaN
    ELSE IF ~IsFinite(a) THEN (IF ~IsFinite(b) THEN NaN
                               ELSE (IF b < 0 THEN -a ELSE a))
    ELSE IF ~IsFinite(b) THEN 0
    ELSE IF b = 0 THEN (IF a = 0 THEN NaN ELSE Sign(a) * Infinity)
    ELSE RoundDiv(a, b)

\* a * b where b is a whole number of degrees
Scaled(a, b) ==
    IF IsNaN(a) \/ IsNaN(b) THEN NaN
    ELSE IF ~IsFinite(a) \/ ~IsFinite(b)
         THEN (IF a = 0 \/ b = 0 THEN NaN ELSE Sign(a) * Sign(b) * Infinity)
    ELSE a * b

\* 2.512 ^ (k / 10) in thousandths for k = 0..10 (index k + 1)
PogsonTab == <<1000, 1096, 1202, 1318, 1445, 1585, 1738, 1906, 2089, 2291, 2512>>
\* the weight 1, in thousandths
WeightUnit == PogsonTab[1]

\* Math.pow(2.512, x) for x in tenths, in thousandths
RECURSIVE MathPowPogson(_)
MathPowPogson(x) ==
    IF IsNaN(x) THEN NaN
    ELSE IF x = Infinity THEN Infinity
    ELSE IF x = -Infinity THEN 0
    ELSE IF x < 0 THEN RoundDiv(MathPowPogson(x + 10) * WeightUnit, PogsonTab[11])
    ELSE IF x <= 10 THEN PogsonTab[x + 1]
    ELSE RoundDiv(MathPowPogson(x - 10) * PogsonTab[11], WeightUnit)

StarWeight(star) == MathPowPogson(Sub(30, star.mag))
BodyWeight == 5 * WeightUnit

\* the sum of the numbers of a sequence, added from left to right
RECURSIVE SumOf(_)
SumOf(terms) ==
    IF terms = << >> THEN 0
    ELSE Add(SumOf(SubSeq(terms, 1, Len(terms) - 1)), terms[Len(terms)])

VisibleBrightStars(stars) == SelectSeq(stars, LAMBDA s : s.isVisible /\ Lt(s.mag, 30))
CountedBodies(bodies) ==
    SelectSeq(bodies, LAMBDA b : b.isVisible /\ b.name # "Sun")

\* sumAz, sumAlt and totalWeight after the two loops
SumAz(visibleStars, bodies) ==
    Add(SumOf([i \in 1..Len(visibleStars) |->
                  Scaled(StarWeight(visibleStars[i]), visibleStars[i].altAz.azimuth)]),
        SumOf([i \in 1..Len(bodies) |-> Scaled(BodyWeight, bodies[i].altAz.azimuth)]))
SumAlt(visibleStars, bodies) ==
    Add(SumOf([i \in 1..Len(visibleStars) |->
                  Scaled(StarWeight(visibleStars[i]), visibleStars[i].altAz.altitude)]),
        SumOf([i \in 1..Len(bodies) |-> Scaled(BodyWeight, bodies[i].altAz.altitude)]))
TotalWeight(visibleStars, bodies) ==
    Add(SumOf([i \in 1..Len(visibleStars) |-> StarWeight(visibleStars[i])]),
        SumOf([i \in 1..Len(bodies) |-> BodyWeight]))

DefaultViewDirection == [azimuth |-> 180, altitude |-> 45]

WeightedViewDirection(visibleStars, bodies) ==
    IF TotalWeight(visibleStars, bodies) = 0 THEN DefaultViewDirection
    ELSE [azimuth |-> Ratio(SumAz(visibleStars, bodies), TotalWeight(visibleStars, bodies)),
          altitude |-> MathMax(20, MathMin(70, Ratio(SumAlt(visibleStars, bodies),
                                                     TotalWeight(visibleStars, bodies))))]

findBestViewDirection(stars, bodies) ==
    IF Len(VisibleBrightStars(stars)) = 0 THEN DefaultViewDirection
    ELSE WeightedViewDirection(VisibleBrightStars(stars), CountedBodies(bodies))

-----------------------------------------------------------------------------
(* The functions of the engine, called on their own                        *)

MaxHour == 23
MaxDeclination == 90
DeclinationStep == 8

Hours == 0..MaxHour
\* every DeclinationStep-th degree, the poles and the default latitude
Degrees == { d \in -MaxDeclination..MaxDeclination : d % DeclinationStep = 0 }
               \cup { -MaxDeclination, MaxDeclination, DEFAULT_LOCATION.latitude }

\* showers with the windows 28 Dec - 12 Jan, 5 Nov - 5 Feb, 10 - 20 Mar and
\* 17 Dec - 26 Dec
TestShowers ==
    { Shower("wrap-a", 12, 28, 1, 12, 0, 0), Shower("wrap-b", 11, 5, 2, 5, 0, 0),
      Shower("plain", 3, 10, 3, 20, 0, 0), METEOR_SHOWERS[11] }
TestDays == { 1, 4, 5, 6, 9, 10, 11, 12, 13, 17, 20, 21, 26, 27, 28, 29, 31 }
TestZones == { -8, 0 }

NoCall == [fn |-> "none"]

\* the calls made: a function and its arguments
HourAngleCalls ==
    { [fn |-> "calculateHourAngle", lst |-> lst, ra |-> ra] : lst \in Hours, ra \in Hours }
EquatorialCalls ==
    { [fn |-> "equatorialToHorizontal", ra |-> ra, dec |-> dec, latitude |-> lat, lst |-> lst] :
        ra \in {0, 12}, dec \in Degrees, lat \in Degrees, lst \in Hours }
MeteorShowerCalls ==
    { [fn |-> "processMeteorShower", shower |-> METEOR_SHOWERS[i], latitude |-> lat,
       date |-> MakeDate(2024, 10, 21, h)] :
        i \in 1..Len(METEOR_SHOWERS), lat \in Degrees \cup {16}, h \in Hours }
ActiveShowerCalls ==
    { [fn |-> "getActiveMeteorShowers", shower |-> shower, date |-> MakeDate(2024, m, d, h),
       tz |-> tz] :
        shower \in TestShowers, m \in 1..12, d \in TestDays, h \in {0, MaxHour},
        tz \in TestZones }
\* the answers of the library: hours from baseDate to the next new moon
MoonOffsets == { 87, 150, 272, 300 }
EventCalls ==
    { [fn |-> "getUpcomingAstronomyEvents", date |-> date, daysAhead |-> days, tz |-> tz,
       newMoon |-> newMoon, hour |-> hour] :
        date \in { MakeDate(2024, 8, 1, 0), MakeDate(2024, 9, 1, 0), MakeDate(2024, 12, 25, 0) },
        days \in { 30, 90 },
        tz \in TestZones, newMoon \in MoonOffsets, hour \in { 0, 9 } }
\* a processed star, as far as findBestViewDirection reads it
ViewStar(azimuth, altitude, mag) ==
    [mag |-> mag, altAz |-> [azimuth |-> azimuth, altitude |-> altitude],
     isVisible |-> Gt(altitude, 0)]
ViewBody(name, azimuth, altitude) ==
    [name |-> name, altAz |-> [azimuth |-> azimuth, altitude |-> altitude], isVisible |-> TRUE]
ViewStars ==
    { ViewStar(350, 30, 20), ViewStar(10, 30, 20), ViewStar(90, 80, -15),
      ViewStar(200, -10, 0), ViewStar(120, 40, 45), ViewStar(90, 30, -Infinity) }
ViewBodies ==
    { << >>, << ViewBody("Sun", 100, 10) >>, << ViewBody("Moon", 200, -40) >>,
      << ViewBody("Sun", 100, 10), ViewBody("Jupiter", 355, 85) >> }
ViewDirectionCalls ==
    { [fn |-> "findBestViewDirection", stars |-> stars, celestialBodies |-> bodies] :
        stars \in { << >> } \cup { <<s>> : s \in ViewStars }
                      \cup { <<s, t>> : s \in ViewStars, t \in ViewStars },
        bodies \in ViewBodies }
\* instants before, at and after the epoch of the elements (2000-01-01 12:00 UTC)
AsteroidInstants ==
    { MakeDate(1969, 12, 31, 23), MakeDate(1990, 1, 1, 0), MakeDate(1999, 1, 5, 0),
      MakeDate(2000, 1, 1, 11), MakeDate(2000, 1, 1, 12), MakeDate(2000, 1, 1, 13),
      MakeDate(2024, 1, 18, 3), MakeDate(2034, 6, 1, 13) }
AsteroidCalls ==
    { [fn |-> "calculateAsteroidPositions", date |-> date] : date \in AsteroidInstants }
\* mean anomalies in thousandths of a degree
MeanAnomalies == { 0, 30000, 77370, 120000, 200000, 359000, -344000 }
KeplerCalls ==
    { [fn |-> "solveKepler", el |-> MAJOR_ASTEROIDS[i].elements, M_deg |-> M] :
        i \in 1..Len(MAJOR_ASTEROIDS), M \in MeanAnomalies }
\* the days from 25 December to 5 March and around the ends of February of
\* 1900, 2000 and 2100, the start of 1970 and of 2038
BoundaryDays ==
    { DaysFromCivil(2023, 12, 25) + k : k \in 0..71 }
        \cup { DaysFromCivil(y, 2, 27) + k : y \in { 1900, 2000, 2100 }, k \in 0..3 }
        \cup { DaysFromCivil(y, 12, 30) + k : y \in { 1969, 2037 }, k \in 0..3 }
JulianDateCalls ==
    { [fn |-> "dateToJulianDate", date |-> 24 * day + h] :
        day \in BoundaryDays, h \in { 0, 12, MaxHour } }
ConstellationCalls ==
    { [fn |-> "processConstellation", constellation |-> CONSTELLATIONS[i],
       catalog |-> catalog, latitude |-> lat, date |-> MakeDate(2024, 1, 18, h)] :
        i \in 1..Len(CONSTELLATIONS), catalog \in { HygCatalog, TwinCatalog },
        lat \in { 8, 38 }, h \in { 3, MaxHour } }

InitPure ==
    /\ location = DEFAULT_LOCATION
    /\ dateTime = MakeDate(2024, 1, 18, 3)
    /\ lightPollution = 2
    /\ starCatalog = << >>
    /\ isLoadingStars = TRUE
    /\ extendedDeepSky = << >>
    /\ ephem = [fail |-> "none", noMagnitude |-> "none", sky |-> 1]
    /\ timeZone = 0
    /\ satChildren = << >>
    /\ satFailed = {}
    /\ probe \in HourAngleCalls \cup EquatorialCalls \cup MeteorShowerCalls
                 \cup ActiveShowerCalls \cup ConstellationCalls \cup EventCalls
                 \cup ViewDirectionCalls \cup AsteroidCalls \cup KeplerCalls
                 \cup JulianDateCalls
    /\ result = NoCall
    /\ LoadsIdle

CallHourAngle ==
    /\ result = NoCall
    /\ probe.fn = "calculateHourAngle"
    /\ result' = [value |-> calculateHourAngle(probe.lst, probe.ra)]
    /\ UNCHANGED <<pageVars, satVars, probe, loadVars, uiVars>>

CallEquatorialToHorizontal ==
    /\ result = NoCall
    /\ probe.fn = "equatorialToHorizontal"
    /\ result' = [value |-> equatorialToHorizontal([ra |-> probe.ra, dec |-> probe.dec],
                                                   GeoLocation(probe.latitude, 0), probe.lst)]
    /\ UNCHANGED <<pageVars, satVars, probe, loadVars, uiVars>>

CallProcessMeteorShower ==
    /\ result = NoCall
    /\ probe.fn = "processMeteorShower"
    /\ result' = [value |-> processMeteorShower(probe.shower, TRUE,
                                                GeoLocation(probe.latitude, 0), probe.date)]
    /\ UNCHANGED <<pageVars, satVars, probe, loadVars, uiVars>>

\* getActiveMeteorShowers keeps the shower
CallShowerIsActive ==
    /\ result = NoCall
    /\ probe.fn = "getActiveMeteorShowers"
    /\ result' = [value |-> ShowerIsActive(probe.shower, GetMonth1(probe.date, probe.tz),
                                           GetDate(probe.date, probe.tz))]
    /\ UNCHANGED <<pageVars, satVars, probe, loadVars, uiVars>>

CallGetUpcomingAstronomyEvents ==
    /\ result = NoCall
    /\ probe.fn = "getUpcomingAstronomyEvents"
    /\ result' = [value |-> getUpcomingAstronomyEvents(probe.date, probe.daysAhead, probe.tz,
                                                       probe.newMoon, probe.hour)]
    /\ UNCHANGED <<pageVars, satVars, probe, loadVars, uiVars>>

CallFindBestViewDirection ==
    /\ result = NoCall
    /\ probe.fn = "findBestViewDirection"
    /\ result' = [value |-> findBestViewDirection(probe.stars, probe.celestialBodies)]
    /\ UNCHANGED <<pageVars, satVars, probe, loadVars, uiVars>>

CallCalculateAsteroidPositions ==
    /\ result = NoCall
    /\ probe.fn = "calculateAsteroidPositions"
    /\ result' = [value |-> calculateAsteroidPositions(probe.date)]
    /\ UNCHANGED <<pageVars, satVars, probe, loadVars, uiVars>>

CallSolveKepler ==
    /\ result = NoCall
    /\ probe.fn = "solveKepler"
    /\ result' = [value |-> solveKepler(probe.el, probe.M_deg)]
    /\ UNCHANGED <<pageVars, satVars, probe, loadVars, uiVars>>

CallDateToJulianDate ==
    /\ result = NoCall
    /\ probe.fn = "dateToJulianDate"
    /\ result' = [value |-> dateToJulianDate(probe.date)]
    /\ UNCHANGED <<pageVars, satVars, probe, loadVars, uiVars>>

\* processConstellation on the stars processStarCatalog gives for the catalog
CallProcessConstellation ==
    /\ result = NoCall
    /\ probe.fn = "processConstellation"
    /\ result' = [value |-> processConstellation(
                                probe.constellation,
                                processStarCatalog(probe.catalog,
                                                   GeoLocation(probe.latitude, 0), probe.date),
                                GeoLocation(probe.latitude, 0), probe.date)]
    /\ UNCHANGED <<pageVars, satVars, probe, loadVars, uiVars>>

NextPure ==
    \/ CallHourAngle
    \/ CallEquatorialToHorizontal
    \/ CallProcessMeteorShower
    \/ CallShowerIsActive
    \/ CallProcessConstellation
    \/ CallGetUpcomingAstronomyEvents
    \/ CallFindBestViewDirection
    \/ CallCalculateAsteroidPositions
    \/ CallSolveKepler
    \/ CallDateToJulianDate

SpecPure == InitPure /\ [][NextPure]_vars

-----------------------------------------------------------------------------
(* calculateHourAngle step by step: one action per test and per pass of    *)
(* its two while loops.  probe holds the arguments, result the local ha    *)
(* and the parity of the number of passes made through the loop bodies     *)

\* right ascensions parseHYGData lets through: parseFloat gives Infinity for
\* "Infinity" and for "1e999", and isNaN(Infinity) is false
AcceptedRightAscensions == Hours \cup { 100, Infinity, -Infinity }

InitLoop ==
    /\ location = DEFAULT_LOCATION
    /\ dateTime = MakeDate(2024, 1, 18, 3)
    /\ lightPollution = 2
    /\ starCatalog = << >>
    /\ isLoadingStars = TRUE
    /\ extendedDeepSky = << >>
    /\ ephem = [fail |-> "none", noMagnitude |-> "none", sky |-> 1]
    /\ timeZone = 0
    /\ satChildren = << >>
    /\ satFailed = {}
    /\ probe \in { [fn |-> "calculateHourAngle", lst |-> lst, ra |-> ra] :
                     lst \in Hours, ra \in AcceptedRightAscensions }
    /\ result = NoCall
    /\ LoadsIdle

\* let ha = (lst - ra) * 15
HourAngleEnter ==
    /\ result = NoCall
    /\ result' = [fn |-> "calculateHourAngle", pc |-> "above", passes |-> 0,
                  ha |-> Times(Sub(probe.lst, probe.ra), 15)]
    /\ UNCHANGED <<pageVars, satVars, probe, loadVars, uiVars>>

\* while (ha > 180) ha -= 360
HourAngleAbove ==
    /\ result # NoCall
    /\ result.pc = "above"
    /\ result' = IF Gt(result.ha, 180)
                 THEN [result EXCEPT !.ha = Sub(result.ha, 360), !.passes = 1 - result.passes]
                 ELSE [result EXCEPT !.pc = "below"]
    /\ UNCHANGED <<pageVars, satVars, probe, loadVars, uiVars>>

\* while (ha < -180) ha += 360; return ha
HourAngleBelow ==
    /\ result # NoCall
    /\ result.pc = "below"
    /\ result' = IF Lt(result.ha, -180)
                 THEN [result EXCEPT !.ha = Add(result.ha, 360), !.passes = 1 - result.passes]
                 ELSE [result EXCEPT !.pc = "returned"]
    /\ UNCHANGED <<pageVars, satVars, probe, loadVars, uiVars>>

NextLoop ==
    \/ HourAngleEnter
    \/ HourAngleAbove
    \/ HourAngleBelow

\* the engine runs a call it has started: every step that is possible is taken
SpecLoop == InitLoop /\ [][NextLoop]_vars /\ WF_vars(NextLoop)

-----------------------------------------------------------------------------
(* The loads of the page: the three effects of the first render, the       *)
(* answers of the remote sources, unmounting, and opening the page again   *)
(* over the same localStorage                                              *)

\* the items a browser may hold for the star catalog when the page opens
StoredStarItems ==
    { NoItem, CorruptItem, JsonItem(FallbackCatalog),
      JsonItem(parseHYGData(HygText("large"))) }

InitLoad ==
    /\ location = DEFAULT_LOCATION
    /\ dateTime = MakeDate(2024, 1, 18, 3)
    /\ lightPollution = 2
    /\ starCatalog = << >>
    /\ isLoadingStars = TRUE
    /\ extendedDeepSky = << >>
    /\ ephem = [fail |-> "none", noMagnitude |-> "none", sky |-> 1]
    /\ timeZone = 0
    /\ satChildren = << >>
    /\ satFailed = {}
    /\ probe = << >>
    /\ result = << >>
    /\ asteroids = << >>
    /\ unmounted = FALSE
    /\ storage \in [stars : StoredStarItems,
                    asteroids : { NoItem, TimedItem(AsteroidSample) },
                    deepSky : { NoItem, TimedItem(ExtendedCatalog) }]
    /\ starFetch = NoFetch
    /\ deepSkyFetch = "idle"
    /\ asteroidFetch = "idle"
    /\ tour = NoTour
    /\ anim = NoAnim

\* the three effects of the first render, each up to its first await on the
\* network; a load answered by the cache is applied before anything else runs
MountEffects ==
    /\ ~unmounted
    /\ starFetch.pc = "idle"
    /\ starFetch' = FetchStarted(storage.stars)
    /\ starCatalog' = IF CacheHit(storage.stars) THEN storage.stars.data ELSE starCatalog
    /\ isLoadingStars' = ~CacheHit(storage.stars)
    /\ \E fresh \in BOOLEAN :
          /\ asteroidFetch' = IF TimedHit(storage.asteroids, fresh) THEN "done" ELSE "fetching"
          /\ asteroids' = IF TimedHit(storage.asteroids, fresh)
                          THEN storage.asteroids.data ELSE asteroids
    /\ \E fresh \in BOOLEAN :
          /\ deepSkyFetch' = IF TimedHit(storage.deepSky, fresh) THEN "done" ELSE "fetching"
          /\ extendedDeepSky' = IF TimedHit(storage.deepSky, fresh)
                                THEN storage.deepSky.data ELSE extendedDeepSky
    /\ UNCHANGED <<location, dateTime, lightPollution, ephem, timeZone, satVars, probeVars,
                   unmounted, storage, uiVars>>

\* the rest of fetchStarCatalog and of loadStars once the request is settled
HygSettled(fetch) ==
    /\ starFetch' = fetch
    /\ storage' = [storage EXCEPT !.stars =
                      IF fetch.source = "network"
                      THEN CacheAfterParse(storage.stars, fetch.value, fetch.setItemOk)
                      ELSE storage.stars]
    /\ starCatalog' = IF unmounted THEN starCatalog ELSE fetch.value
    /\ isLoadingStars' = IF unmounted THEN isLoadingStars ELSE FALSE

HygResponds ==
    /\ starFetch.pc = "fetching"
    /\ \E answer \in HygAnswers : HygSettled(FetchResolved(starFetch, answer))
    /\ UNCHANGED <<location, dateTime, lightPollution, extendedDeepSky, ephem, timeZone,
                   satVars, probeVars, asteroids, unmounted, deepSkyFetch, asteroidFetch, uiVars>>

\* the rest of fetchNearEarthAsteroids and .then(setAsteroids); React drops
\* the update of a component that is gone
NasaResponds ==
    /\ asteroidFetch = "fetching"
    /\ \E ok \in BOOLEAN, setItemOk \in BOOLEAN :
          /\ asteroids' = IF unmounted THEN asteroids
                          ELSE IF ok THEN AsteroidSample ELSE << >>
          /\ storage' = [storage EXCEPT !.asteroids =
                            IF ok /\ setItemOk THEN TimedItem(AsteroidSample) ELSE @]
    /\ asteroidFetch' = "done"
    /\ UNCHANGED <<pageVars, satVars, probeVars, unmounted, starFetch, deepSkyFetch, uiVars>>

\* the rest of fetchAllDeepSky and .then(setExtendedDeepSky), the three
\* queries answered alike
SimbadResponds ==
    /\ deepSkyFetch = "fetching"
    /\ \E ok \in BOOLEAN, setItemOk \in BOOLEAN :
          /\ extendedDeepSky' = IF unmounted THEN extendedDeepSky
                                ELSE IF ok THEN ExtendedCatalog ELSE << >>
          /\ storage' = [storage EXCEPT !.deepSky =
                            IF ok /\ setItemOk THEN TimedItem(ExtendedCatalog) ELSE @]
    /\ deepSkyFetch' = "done"
    /\ UNCHANGED <<location, dateTime, lightPollution, starCatalog, isLoadingStars, ephem,
                   timeZone, satVars, probeVars, asteroids, unmounted, starFetch,
                   asteroidFetch, uiVars>>

\* the cleanup of the loadStars effect: mounted = false
Unmount ==
    /\ ~unmounted
    /\ starFetch.pc # "idle"
    /\ unmounted' = TRUE
    /\ UNCHANGED <<pageVars, satVars, probeVars, asteroids, storage, starFetch,
                   deepSkyFetch, asteroidFetch, uiVars>>

\* the page opened again once the loads of the last visit are settled
Reopen ==
    /\ unmounted
    /\ starFetch.pc = "done" /\ asteroidFetch = "done" /\ deepSkyFetch = "done"
    /\ starCatalog' = << >>
    /\ isLoadingStars' = TRUE
    /\ extendedDeepSky' = << >>
    /\ asteroids' = << >>
    /\ unmounted' = FALSE
    /\ starFetch' = NoFetch
    /\ asteroidFetch' = "idle"
    /\ deepSkyFetch' = "idle"
    /\ UNCHANGED <<location, dateTime, lightPollution, ephem, timeZone, satVars, probeVars,
                   storage, uiVars>>

NextLoad ==
    \/ MountEffects
    \/ HygResponds
    \/ NasaResponds
    \/ SimbadResponds
    \/ Unmount
    \/ Reopen

SpecLoad == InitLoad /\ [][NextLoad]_vars

\* the effects of a rendered page do run; nothing makes a remote source answer
SpecLoadFair == InitLoad /\ [][NextLoad]_vars /\ WF_vars(MountEffects)

-----------------------------------------------------------------------------
(* components/star-chart/TourGuide.tsx                                     *)

\* a star and a planet as far as TourGuide reads them
TourStar(name, mag, altitude) == [name |-> name, mag |-> mag, altAz |-> [altitude |-> altitude]]
TourPlanet(name, magnitude, altitude) ==
    [name |-> name, magnitude |-> magnitude, altAz |-> [altitude |-> altitude]]

\* a.magnitude || 0
MagnitudeOrZero(magnitude) ==
    IF magnitude = Undefined \/ IsNaN(magnitude) THEN 0 ELSE magnitude

\* planets.filter(altitude > 0).sort((a, b) => (b.magnitude || 0) - (a.magnitude || 0))
\* .slice(0, 3)
KeyedPlanets(planets) ==
    [i \in 1..Len(planets) |->
        [name |-> planets[i].name, mag |-> -MagnitudeOrZero(planets[i].magnitude)]]
PlanetStops(planets) ==
    LET sorted == SortByMagnitude(KeyedPlanets(
                      SelectSeq(planets, LAMBDA b : Gt(b.altAz.altitude, 0))))
    IN  [i \in 1..(IF Len(sorted) < 3 THEN Len(sorted) ELSE 3) |->
            [name |-> sorted[i].name, type |-> "planet"]]

\* stars.filter(altitude > 10).sort((a, b) => a.mag - b.mag).slice(0, 5), of which
\* the stars with a name are pushed
StarStops(stars) ==
    LET sorted == SortByMagnitude(SelectSeq(stars, LAMBDA t : Gt(t.altAz.altitude, 10)))
        five == SubSeq(sorted, 1, IF Len(sorted) < 5 THEN Len(sorted) ELSE 5)
    IN  [i \in 1..Len(SelectSeq(five, LAMBDA t : t.name # "")) |->
            [name |-> SelectSeq(five, LAMBDA t : t.name # "")[i].name, type |-> "star"]]

\* the useMemo of tourStops
TourStops(t) == PlanetStops(t.planets) \o StarStops(t.stars)

\* tourStops[currentIndex] is undefined
NoCurrentStop(t) == t.currentIndex + 1 > Len(TourStops(t)) \/ t.currentIndex < 0

\* what the component returns: null, the panel of the current stop, or the
\* TypeError of currentStop.name when the current stop is undefined
Rendered(t) ==
    IF ~t.isActive \/ Len(TourStops(t)) = 0 THEN "null"
    ELSE IF NoCurrentStop(t) THEN "TypeError"
    ELSE TourStops(t)[t.currentIndex + 1].name

\* the effect "navigate to current stop": onLookAt of the stop; after a render
\* that threw no effect runs
LookedAt(t) ==
    IF Rendered(t) = "TypeError" THEN t.lookAt
    ELSE IF t.isActive /\ Len(TourStops(t)) > 0 /\ ~NoCurrentStop(t)
         THEN TourStops(t)[t.currentIndex + 1].name
         ELSE t.lookAt

\* the render and the effect that follow a change of state or props
AfterRender(t) == [t EXCEPT !.rendered = Rendered(t), !.lookAt = LookedAt(t)]

\* the tree is shown: no render has thrown
TourMounted == tour.rendered # "TypeError"
PanelShown == TourMounted /\ tour.rendered # "null"

\* the skies of an evening: eight stops, three stops, none, five stops, and three
\* stops beside a star without a name
TourSkies ==
    { [planets |-> << TourPlanet("Moon", -120, 30), TourPlanet("Jupiter", -25, 40),
                      TourPlanet("Saturn", 8, 20), TourPlanet("Mars", 10, 5),
                      TourPlanet("Pluto", Undefined, -20) >>,
       stars |-> << TourStar("Sirius", -15, 30), TourStar("Vega", 0, 50),
                    TourStar("Capella", 1, 60), TourStar("Rigel", 2, 25),
                    TourStar("Betelgeuse", 5, 40), TourStar("Polaris", 20, 38) >>],
      [planets |-> << TourPlanet("Moon", -120, 5), TourPlanet("Jupiter", -25, -10) >>,
       stars |-> << TourStar("Sirius", -15, 8), TourStar("Vega", 0, 70),
                    TourStar("Polaris", 20, 38) >>],
      [planets |-> << TourPlanet("Jupiter", -25, -10) >>, stars |-> << >>],
      [planets |-> << TourPlanet("Venus", -40, 15), TourPlanet("Jupiter", -25, 60) >>,
       stars |-> << TourStar("Arcturus", 0, 45), TourStar("Spica", 10, 30),
                    TourStar("Antares", 11, 12), TourStar("Deneb", 13, 9) >>],
      [planets |-> << TourPlanet("Saturn", 8, 20) >>,
       stars |-> << TourStar("Vega", 0, 70), TourStar("", 3, 45),
                    TourStar("Polaris", 20, 38) >>] }

\* page.tsx:864 setIsTourActive(true)
OpenTour ==
    /\ TourMounted
    /\ ~tour.isActive
    /\ tour' = AfterRender([tour EXCEPT !.isActive = TRUE])
    /\ UNCHANGED <<pageVars, satVars, probeVars, loadVars, anim>>

\* onClose: setIsTourActive(false)
onClose ==
    /\ PanelShown
    /\ tour' = AfterRender([tour EXCEPT !.isActive = FALSE])
    /\ UNCHANGED <<pageVars, satVars, probeVars, loadVars, anim>>

handleNext ==
    /\ PanelShown
    /\ tour' = AfterRender([tour EXCEPT
                    !.currentIndex = (tour.currentIndex + 1) % Len(TourStops(tour))])
    /\ UNCHANGED <<pageVars, satVars, probeVars, loadVars, anim>>

handlePrev ==
    /\ PanelShown
    /\ tour' = AfterRender([tour EXCEPT
                    !.currentIndex = (tour.currentIndex - 1 + Len(TourStops(tour)))
                                         % Len(TourStops(tour))])
    /\ UNCHANGED <<pageVars, satVars, probeVars, loadVars, anim>>

\* the page passes other stars and planets: the instant or the location changed
SkyChanges ==
    /\ TourMounted
    /\ \E sky \in TourSkies :
          /\ <<sky.stars, sky.planets>> # <<tour.stars, tour.planets>>
          /\ tour' = AfterRender([tour EXCEPT !.stars = sky.stars, !.planets = sky.planets])
    /\ UNCHANGED <<pageVars, satVars, probeVars, loadVars, anim>>

InitTour ==
    /\ location = DEFAULT_LOCATION
    /\ dateTime = MakeDate(2024, 1, 18, 3)
    /\ lightPollution = 2
    /\ starCatalog = << >>
    /\ isLoadingStars = TRUE
    /\ extendedDeepSky = << >>
    /\ ephem = [fail |-> "none", noMagnitude |-> "none", sky |-> 1]
    /\ timeZone = 0
    /\ satChildren = << >>
    /\ satFailed = {}
    /\ probe = << >>
    /\ result = << >>
    /\ asteroids = << >>
    /\ unmounted = FALSE
    /\ storage = NoStorage
    /\ starFetch = NoFetch
    /\ deepSkyFetch = "idle"
    /\ asteroidFetch = "idle"
    /\ anim = NoAnim
    /\ \E sky \in TourSkies :
          tour = [isActive |-> FALSE, currentIndex |-> 0, stars |-> sky.stars,
                  planets |-> sky.planets, rendered |-> "null", lookAt |-> "none"]

NextTour ==
    \/ OpenTour
    \/ onClose
    \/ handleNext
    \/ handlePrev
    \/ SkyChanges

SpecTour == InitTour /\ [][NextTour]_vars

-----------------------------------------------------------------------------
(* app/page.tsx: the time animation                                        *)

\* the ticks of the real clock after the page opened, and the calls of
\* requestAnimationFrame, that are followed
MaxClock == 3
MaxFrames == 4

\* the speeds of the buttons of Controls (of 0, 1, 100, 1000, 10000)
SpeedButtons == { 0, 1, 100 }

\* Date.now() when the page opens
ClockStart == MakeDate(2024, 1, 18, 3)

\* if (animationRef.current): null and 0 are not taken
Truthy(x) == x # Null /\ x # 0

cancelAnimationFrame(a, id) == [a EXCEPT !.pending = { cb \in a.pending : cb.id # id }]

\* animationRef.current = requestAnimationFrame(animate), animate being the
\* closure of an effect run with the time speed "speed"
requestAnimationFrame(a, speed) ==
    [a EXCEPT !.pending = @ \cup { [id |-> a.nextId, speed |-> speed] },
              !.animationRef = a.nextId,
              !.nextId = @ + 1]

\* an effect whose cleanup does nothing
EffectCleanupNone(a) == a

\* the function the effect returns
EffectCleanup(a) ==
    IF Truthy(a.animationRef) THEN cancelAnimationFrame(a, a.animationRef) ELSE a

\* the body of the effect
EffectBody(a) ==
    IF a.timeSpeed = 0
    THEN (IF Truthy(a.animationRef)
          THEN [cancelAnimationFrame(a, a.animationRef) EXCEPT !.animationRef = Null]
          ELSE a)
    ELSE requestAnimationFrame([a EXCEPT !.lastUpdate = a.now], a.timeSpeed)

\* React runs the effect after the first render and after a render in which
\* timeSpeed differs from the one of the last run, the cleanup of the last run first
TimeAnimationEffect ==
    /\ ~unmounted
    /\ anim.effectFor # anim.timeSpeed
    /\ anim.timeSpeed # 0 => anim.nextId <= MaxFrames
    /\ anim' = [EffectBody(IF anim.effectFor = Undefined THEN anim ELSE EffectCleanup(anim))
                    EXCEPT !.effectFor = anim.timeSpeed]
    /\ UNCHANGED <<pageVars, satVars, probeVars, loadVars, tour>>

\* the browser calls a pending callback: animate
animate ==
    /\ anim.nextId <= MaxFrames
    /\ \E cb \in anim.pending :
          /\ anim' = requestAnimationFrame(
                         [anim EXCEPT !.pending = @ \ {cb}, !.lastUpdate = anim.now], cb.speed)
          /\ dateTime' = IF unmounted THEN dateTime
                         ELSE Add(dateTime, (anim.now - anim.lastUpdate) * cb.speed)
    /\ UNCHANGED <<location, lightPollution, starCatalog, isLoadingStars, extendedDeepSky,
                   ephem, timeZone, satVars, probeVars, loadVars, tour>>

handleTimeSpeedChange ==
    /\ ~unmounted
    /\ \E speed \in SpeedButtons :
          anim' = [anim EXCEPT !.timeSpeed = speed, !.lastUpdate = anim.now]
    /\ UNCHANGED <<pageVars, satVars, probeVars, loadVars, tour>>

\* Controls.handleResetTime: onDateTimeChange(new Date()); onTimeSpeedChange(1)
handleResetTime ==
    /\ ~unmounted
    /\ dateTime' = anim.now
    /\ anim' = [anim EXCEPT !.timeSpeed = 1, !.lastUpdate = anim.now]
    /\ UNCHANGED <<location, lightPollution, starCatalog, isLoadingStars, extendedDeepSky,
                   ephem, timeZone, satVars, probeVars, loadVars, tour>>

\* EventCalendar onTimeTravel = setDateTime, with the date of an event
onTimeTravel ==
    /\ ~unmounted
    /\ dateTime' = MakeDate(2024, 8, 12, 0)
    /\ UNCHANGED <<location, lightPollution, starCatalog, isLoadingStars, extendedDeepSky,
                   ephem, timeZone, satVars, probeVars, loadVars, uiVars>>

\* the date entry of Controls
EnterDateTime == ~unmounted /\ handleDateTimeChange

\* the page is left: the cleanup of the effect
UnmountPage ==
    /\ ~unmounted
    /\ anim.effectFor # Undefined
    /\ unmounted' = TRUE
    /\ anim' = EffectCleanup(anim)
    /\ UNCHANGED <<pageVars, satVars, probeVars, asteroids, storage, starFetch,
                   deepSkyFetch, asteroidFetch, tour>>

\* real time passes
ClockTicks ==
    /\ anim.now < ClockStart + MaxClock
    /\ anim' = [anim EXCEPT !.now = @ + 1]
    /\ UNCHANGED <<pageVars, satVars, probeVars, loadVars, tour>>

InitAnim ==
    /\ location = DEFAULT_LOCATION
    /\ dateTime = ClockStart
    /\ lightPollution = 2
    /\ starCatalog = << >>
    /\ isLoadingStars = TRUE
    /\ extendedDeepSky = << >>
    /\ ephem = [fail |-> "none", noMagnitude |-> "none", sky |-> 1]
    /\ timeZone = 0
    /\ satChildren = << >>
    /\ satFailed = {}
    /\ probe = << >>
    /\ result = << >>
    /\ asteroids = << >>
    /\ unmounted = FALSE
    /\ storage = NoStorage
    /\ starFetch = NoFetch
    /\ deepSkyFetch = "idle"
    /\ asteroidFetch = "idle"
    /\ tour = NoTour
    /\ anim = [timeSpeed |-> 1, effectFor |-> Undefined, pending |-> {},
               animationRef |-> Null, lastUpdate |-> ClockStart, now |-> ClockStart,
               nextId |-> 1]

NextAnim ==
    \/ TimeAnimationEffect
    \/ animate
    \/ handleTimeSpeedChange
    \/ handleResetTime
    \/ onTimeTravel
    \/ EnterDateTime
    \/ UnmountPage
    \/ ClockTicks

SpecAnim == InitAnim /\ [][NextAnim]_vars

-----------------------------------------------------------------------------
(* Properties                                                              *)

InSeq(seq, P(_)) == \A i \in 1..Len(seq) : P(seq[i])
SomeIn(seq, P(_)) == \E i \in 1..Len(seq) : P(seq[i])

\* C1: after any loads and changes of location, instant or light pollution,
\* every star of processedStars has x, y and z all finite
C1_StarsFinite ==
    InSeq(processedStars, LAMBDA s : PositionIsFinite(s.position))

\* a bright catalog star whose position is not finite is missing from the
\* non-empty list, the location and the light pollution having been changed
C1_Witness ==
    /\ location # DEFAULT_LOCATION
    /\ lightPollution = 10
    /\ Len(processedStars) > 0
    /\ \E i \in 1..Len(starCatalog) :
          /\ ~PositionIsFinite(processStarForRendering(starCatalog[i], location,
                                                       dateTime).position)
          /\ IsFinite(starCatalog[i].dec)
          /\ InSeq(processedStars, LAMBDA s : s.id # starCatalog[i].id)

\* C2: every body, moon, deep-sky object and meteor-shower radiant handed
\* over by a render has a finite position (an object that cannot be placed is
\* dropped or carries the sentinel position and is not visible)
C2_EmittedPositionsFinite ==
    ~RenderThrows =>
        /\ InSeq(celestialBodies.value, LAMBDA b : PositionIsFinite(b.position))
        /\ InSeq(allDeepSky, LAMBDA o : PositionIsFinite(o.position))
        /\ InSeq(allMeteorShowers, LAMBDA r : PositionIsFinite(r.position))
        /\ InSeq(activeMeteorShowers, LAMBDA r : PositionIsFinite(r.position))

\* C3: every body and moon returned by getAllCelestialBodies is visible,
\* whatever its altitude
C3_BodiesAlwaysVisible ==
    ~celestialBodies.threw => InSeq(celestialBodies.value, LAMBDA b : b.isVisible)

\* a planet and a moon below the horizon are in the list, away from the
\* default location
C3_Witness ==
    /\ location # DEFAULT_LOCATION
    /\ ~celestialBodies.threw
    /\ SomeIn(celestialBodies.value,
              LAMBDA b : b.name = "Mars" /\ b.altAz.altitude < 0 /\ b.isVisible)
    /\ SomeIn(celestialBodies.value,
              LAMBDA b : b.name = "Phobos" /\ b.altAz.altitude < 0 /\ b.isVisible)

CentreAltitude(i) ==
    equatorialToHorizontal([ra |-> CONSTELLATIONS[i].centerRA,
                            dec |-> CONSTELLATIONS[i].centerDec], location,
                           calculateLocalSiderealTime(dateTime, location.longitude)).altitude

\* C4: a star, deep-sky object, meteor-shower radiant, constellation or
\* satellite that is visible has an altitude strictly above 0 (for a
\* constellation the altitude of its centre, for a satellite the height of
\* its position); a sentinel object is not visible
C4_VisibleAboveHorizon ==
    /\ InSeq(processedStars, LAMBDA s : s.isVisible => Gt(s.altAz.altitude, 0))
    /\ InSeq(allDeepSky, LAMBDA o : /\ o.isVisible => Gt(o.altAz.altitude, 0)
                                    /\ o.position = SentinelPosition => ~o.isVisible)
    /\ InSeq(allMeteorShowers, LAMBDA r : r.isVisible => Gt(r.altAz.altitude, 0))
    /\ InSeq(activeMeteorShowers, LAMBDA r : r.isVisible => Gt(r.altAz.altitude, 0))
    /\ LET constellations == processedConstellations
       IN  \A i \in 1..Len(constellations) :
              constellations[i].isVisible => Gt(CentreAltitude(i), 0)
    /\ InSeq(satChildren, LAMBDA c : c.visible => c.position.y > 0)

\* a visible star, a visible constellation, a sentinel deep-sky object, a
\* visible satellite and a satellite on the horizon, not visible
C4_Witness ==
    /\ SomeIn(processedStars, LAMBDA s : s.isVisible)
    /\ SomeIn(processedConstellations, LAMBDA c : c.isVisible)
    /\ SomeIn(allDeepSky, LAMBDA o : o.position = SentinelPosition /\ ~o.isVisible)
    /\ SomeIn(allMeteorShowers, LAMBDA r : r.isVisible)
    /\ SomeIn(satChildren, LAMBDA c : c.visible)
    /\ SomeIn(satChildren, LAMBDA c : c.position.y = 0 /\ ~c.visible)

HorizontalInRange(h) ==
    /\ Ge(h.azimuth, 0) /\ Lt(h.azimuth, 360)
    /\ Ge(h.altitude, -90) /\ Le(h.altitude, 90)

\* C5: the coordinates returned by equatorialToHorizontal and by
\* processMeteorShower have azimuth in [0, 360) and altitude in [-90, 90]
C5_HorizontalInRange ==
    /\ (result # NoCall /\ probe.fn = "equatorialToHorizontal")
          => HorizontalInRange(result.value)
    /\ (result # NoCall /\ probe.fn = "processMeteorShower")
          => HorizontalInRange(result.value.altAz)

\* C6: for lst and ra in [0, 24) calculateHourAngle returns the angle
\* congruent to (lst - ra) * 15 modulo 360 that lies in (-180, 180]
C6_HourAngleHalfOpen ==
    (result # NoCall /\ probe.fn = "calculateHourAngle"
        /\ probe.lst < 24 /\ probe.ra < 24)
      => /\ result.value > -180
         /\ result.value <= 180
         /\ (result.value - (probe.lst - probe.ra) * 15) % 360 = 0

\* C7: at latitude +90 or -90 the divisor of no azimuth computation vanishes
\* with cos(latitude), and every star, deep-sky object and radiant handed over
\* has a finite position
C7_PoleWithoutDivision ==
    (~RenderThrows /\ Abs(location.latitude) = 90) =>
        /\ InSeq(METEOR_SHOWERS,
                 LAMBDA shower : RadiantAzimuthDivisor(shower, location, dateTime) # 0)
        /\ InSeq(processedStars, LAMBDA s : PositionIsFinite(s.position))
        /\ InSeq(allDeepSky, LAMBDA o : PositionIsFinite(o.position))
        /\ InSeq(allMeteorShowers, LAMBDA r : PositionIsFinite(r.position))

\* the closed window of a shower, by the day number within the year
DayNumber(month, day) == month * 31 + day
InActiveWindow(shower, month, day) ==
    LET first == DayNumber(shower.start.month, shower.start.day)
        last == DayNumber(shower.end.month, shower.end.day)
        today == DayNumber(month, day)
    IN  IF shower.start.month > shower.end.month
        THEN today >= first \/ today <= last
        ELSE first <= today /\ today <= last

\* C8: getActiveMeteorShowers keeps a shower exactly when the local month and
\* day of the date lie in its closed window, a window with start.month >
\* end.month running from start to 31 December and from 1 January to end
C8_ActiveIffInWindow ==
    (result # NoCall /\ probe.fn = "getActiveMeteorShowers")
      => (result.value <=> InActiveWindow(probe.shower,
                                          GetMonth1(probe.date, probe.tz),
                                          GetDate(probe.date, probe.tz)))

\* a shower whose window wraps the year is kept on a day of January
C8_Witness ==
    /\ result # NoCall
    /\ probe.fn = "getActiveMeteorShowers"
    /\ probe.shower.start.month > probe.shower.end.month
    /\ GetMonth1(probe.date, probe.tz) = 1
    /\ result.value = TRUE

\* C9: getAllCelestialBodies returns, and its result holds the ten major
\* bodies, whatever the ephemeris library does for one body
C9_AllBodiesReturned ==
    /\ ~celestialBodies.threw
    /\ InSeq(BodyNames,
             LAMBDA name : SomeIn(celestialBodies.value, LAMBDA b : b.name = name))

\* C10: a satellite whose propagation has failed once is not visible at any
\* later frame
C10_DeadIsTerminal ==
    \A i \in satFailed : ~satChildren[i].visible

\* C11: processing an accepted catalog entry terminates: every call of
\* calculateHourAngle with a right ascension that catalog ingest lets through
\* returns
C11_HourAngleTerminates == <>(result # NoCall /\ result.pc = "returned")

\* C12: the scene depends on the catalogs, the observer, the instant and the
\* options only: the answer of getActiveMeteorShowers for a shower and an
\* instant is the same in every time zone of the host
C12_SceneOfInputsOnly ==
    (result # NoCall /\ probe.fn = "getActiveMeteorShowers")
      => \A tz \in TestZones :
            result.value = ShowerIsActive(probe.shower, GetMonth1(probe.date, tz),
                                          GetDate(probe.date, tz))

\* C13: no scene is handed to the renderer before the catalogs are loaded:
\* while the star catalog is loading, StarCanvas is given no bodies, no
\* constellations and no deep-sky objects
C13_SceneAfterLoads ==
    (~RenderThrows /\ isLoadingStars)
      => /\ Len(StarCanvasProps.planets) = 0
         /\ Len(StarCanvasProps.constellations) = 0
         /\ Len(StarCanvasProps.deepSkyObjects) = 0

\* a catalog load that has come back from the network with a text
NetworkDone == starFetch.pc = "done" /\ starFetch.source = "network"

C15_LoadsComplete ==
    <>(/\ starFetch.pc = "done"
       /\ asteroidFetch = "done"
       /\ deepSkyFetch = "done"
       /\ (unmounted \/ ~isLoadingStars))

\* a line of the text whose mag, ra and dec parse and whose mag is at most 6.0
AcceptedRow(header, fields) ==
    /\ Len(fields) > 0
    /\ \A column \in { "mag", "ra", "dec" } :
          ParseFloat(FieldAt(fields, IndexOf(header, column))) # NaN
    /\ Le(ParseFloat(FieldAt(fields, IndexOf(header, "mag"))), 60)
AcceptedRows(lines) == { k \in 2..Len(lines) : AcceptedRow(lines[1], lines[k]) }

\* fewer than two lines, a header without the columns, or no row that parses
WholeParseFailure(lines) ==
    \/ Len(lines) < 2
    \/ \E column \in { "mag", "ra", "dec" } : IndexOf(lines[1], column) = -1
    \/ AcceptedRows(lines) = {}

\* C16: a fetched text that fails to parse as a whole makes fetchStarCatalog
\* return the bundled fallback catalog
C16_ParseFailureFallsBack ==
    (NetworkDone /\ WholeParseFailure(HygText(starFetch.text)))
        => starFetch.value = FallbackCatalog

RowKey(header, fields) ==
    << Over(ParseFloat(FieldAt(fields, IndexOf(header, "ra"))), 10),
       Over(ParseFloat(FieldAt(fields, IndexOf(header, "dec"))), 10),
       ParseFloat(FieldAt(fields, IndexOf(header, "mag"))) >>
StarKey(star) == << star.ra, star.dec, star.mag >>

\* C18: the catalog parsed from a text has one record for each line whose
\* mag, ra and dec parse and whose mag is at most 6.0, no other record, and
\* is in order of non-decreasing magnitude
C18_ParsedCatalogExact ==
    NetworkDone =>
        LET lines == HygText(starFetch.text)
            stars == starFetch.value
            rows == IF Len(lines) < 2 THEN {} ELSE AcceptedRows(lines)
            keys == { RowKey(lines[1], lines[k]) : k \in rows }
        IN  /\ Len(stars) = Cardinality(rows)
            /\ \A i \in 1..Len(stars) : StarKey(stars[i]) \in keys
            /\ \A key \in keys :
                  Cardinality({ i \in 1..Len(stars) : StarKey(stars[i]) = key })
                      = Cardinality({ k \in rows : RowKey(lines[1], lines[k]) = key })
            /\ \A i \in 1..(Len(stars) - 1) : stars[i].mag <= stars[i + 1].mag

\* a text with rejected lines, whose accepted lines are not in order of
\* magnitude, has been parsed
C18_Witness ==
    /\ NetworkDone
    /\ Len(starFetch.value) > 1
    /\ Len(starFetch.value) < Len(HygText(starFetch.text)) - 1
    /\ starFetch.value # parseHYGDataUnsorted(HygText(starFetch.text))

\* C19: a constellation line naming a star resolves to the first, i.e. the
\* brightest, of the processed stars that have the name but for the case
C19_BrightestWinsCollision ==
    (result # NoCall /\ probe.fn = "processConstellation") =>
        LET stars == processStarCatalog(probe.catalog, GeoLocation(probe.latitude, 0),
                                        probe.date)
            Named(name) == { i \in 1..Len(stars) :
                                ToLowerCase(stars[i].name) = ToLowerCase(name) }
            Brightest(name) == stars[CHOOSE i \in Named(name) : \A j \in Named(name) : i <= j]
            drawn == SelectSeq(probe.constellation.lines,
                               LAMBDA l : Named(l[1]) # {} /\ Named(l[2]) # {})
            lines == result.value.lines
        IN  /\ Len(lines) = Len(drawn)
            /\ \A i \in 1..Len(drawn) :
                  /\ lines[i].start = Brightest(drawn[i][1]).position
                  /\ lines[i].end = Brightest(drawn[i][2]).position

\* the events pushed for the call in probe, and the list in reverse order
ProbeEvents ==
    PushedEvents(probe.date, probe.daysAhead, probe.tz, probe.newMoon, probe.hour)
Reverse(seq) == [i \in 1..Len(seq) |-> seq[Len(seq) + 1 - i]]

KindRank(type) == CASE type = "moon" -> 1 [] type = "meteor" -> 2 [] type = "conjunction" -> 3

EventsReturned == result # NoCall /\ probe.fn = "getUpcomingAstronomyEvents"

\* C21: a solstice or equinox of the year of the start instant or of the
\* next year is in the result exactly when its instant lies in the window
C21_SeasonsInWindow ==
    EventsReturned =>
        \A y \in { GetFullYear(probe.date, probe.tz), GetFullYear(probe.date, probe.tz) + 1 } :
            \A k \in 1..4 :
                LET season == SeasonEvents(y, probe.hour)[k]
                IN  InWindow(season.date, probe.date, probe.daysAhead)
                        <=> \E i \in 1..Len(result.value) : result.value[i] = season

\* C22: for every shower of the catalog and the year of the start instant
\* or the next, a peak event of that name and date is in the result exactly
\* when the catalog's peak date lies in the window
C22_CatalogPeaksInWindow ==
    EventsReturned =>
        \A y \in { GetFullYear(probe.date, probe.tz), GetFullYear(probe.date, probe.tz) + 1 } :
            \A k \in 1..Len(SHOWER_PEAKS) :
                LET peak == LocalMidnight(y, SHOWER_PEAKS[k].month, SHOWER_PEAKS[k].day, probe.tz)
                IN  InWindow(peak, probe.date, probe.daysAhead)
                        <=> \E i \in 1..Len(result.value) :
                                result.value[i] = AstronomicalEvent(
                                    SHOWER_PEAKS[k].name \o " Peak", peak, "meteor")

-----------------------------------------------------------------------------
(* findBestViewDirection: the range and the meaning of the direction        *)

ViewReturned == result # NoCall /\ probe.fn = "findBestViewDirection"

\* C23: findBestViewDirection returns an altitude in [20, 70] and an azimuth in
\* [0, 360) for all inputs, and exactly (180, 45) when no star is both visible and
\* brighter than magnitude 3, whatever the bodies are
C23_ViewDirectionInRange ==
    ViewReturned =>
        /\ Ge(result.value.altitude, 20) /\ Le(result.value.altitude, 70)
        /\ Ge(result.value.azimuth, 0) /\ Lt(result.value.azimuth, 360)
        /\ (\A i \in 1..Len(probe.stars) :
                ~(probe.stars[i].isVisible /\ Lt(probe.stars[i].mag, 30)))
               => result.value = [azimuth |-> 180, altitude |-> 45]

\* within 90 degrees of north
TowardsNorth(azimuth) == Ge(azimuth, 270) \/ Le(azimuth, 90)

\* C24: the azimuth is a mean on the circle: when every star and body that is
\* counted has a finite weight and lies within 90 degrees of north, on either side
\* of it, the returned azimuth lies within 90 degrees of north too
C24_AzimuthMeanOnCircle ==
    ( /\ ViewReturned
      /\ Len(VisibleBrightStars(probe.stars)) > 0
      /\ \A i \in 1..Len(probe.stars) :
            IsFinite(probe.stars[i].mag) /\ probe.stars[i].isVisible
                /\ Lt(probe.stars[i].mag, 30) /\ TowardsNorth(probe.stars[i].altAz.azimuth)
      /\ \A j \in 1..Len(probe.celestialBodies) :
            probe.celestialBodies[j].name # "Sun"
                => TowardsNorth(probe.celestialBodies[j].altAz.azimuth) )
        => TowardsNorth(result.value.azimuth)

-----------------------------------------------------------------------------
(* The observer location of the page                                       *)

\* C25: the location of the page state always has a latitude in [-90, +90] and a
\* longitude in [-180, +180], both numbers, after any sequence of manual entries,
\* geolocation results and restores from the URL
C25_LocationInRange ==
    /\ ~IsNaN(location.latitude) /\ ~IsNaN(location.longitude)
    /\ Ge(location.latitude, -90) /\ Le(location.latitude, 90)
    /\ Ge(location.longitude, -180) /\ Le(location.longitude, 180)

-----------------------------------------------------------------------------
(* The asteroids: the mean anomaly and the Kepler solver                    *)

AsteroidsReturned == result # NoCall /\ probe.fn = "calculateAsteroidPositions"

\* (M0 + n * dt) reduced modulo 360 into [0, 360), in thousandths of a degree
ReducedMeanAnomaly(elements, date) ==
    (elements.ma + RoundDiv(elements.n * (JulianDateOfTime(date) - elements.epoch), 24))
        % 360000

\* C26: for every asteroid and every instant, before or after the epoch, the mean
\* anomaly passed to the Kepler solver is (M0 + n * dt) reduced modulo 360 into
\* [0, 360) degrees, and never negative
C26_MeanAnomalyReduced ==
    AsteroidsReturned =>
        \A i \in 1..Len(MAJOR_ASTEROIDS) :
            /\ Ge(result.value[i].solved.M, 0)
            /\ Lt(result.value[i].solved.M, 360000)
            /\ result.value[i].solved.M
                   = ReducedMeanAnomaly(MAJOR_ASTEROIDS[i].elements, probe.date)

KeplerReturned == result # NoCall /\ probe.fn = "solveKepler"

\* Newton's method for M = E - e sin E: E - (E - e sin E - M) / (1 - e cos E)
NewtonStep(el, M, E) ==
    E - RoundDiv((E - EccentricTerm(el.e, E) - M) * 1000,
                 1000 - RoundDiv(el.e * MathCos(RoundDiv(E, 1000)), Unit))

\* the value of E before pass k
Before(solved, k) == IF k = 1 THEN solved.M ELSE solved.iterates[k - 1]

\* C27: the solver iterates E <- M + e sin E when e < 0.2 and with Newton's method
\* when e >= 0.2, stops as soon as E no longer changes or after 10 passes, and
\* never makes more than 10 passes
C27_MethodByEccentricity ==
    KeplerReturned =>
        /\ Len(result.value.iterates) <= 10
        /\ \A k \in 1..Len(result.value.iterates) :
              result.value.iterates[k]
                  = IF probe.el.e < 200
                    THEN FixedPointStep(probe.el, probe.M_deg, Before(result.value, k))
                    ELSE NewtonStep(probe.el, probe.M_deg, Before(result.value, k))
        /\ (probe.M_deg = 0 => Len(result.value.iterates) = 1)

JulianDateReturned == result # NoCall /\ probe.fn = "dateToJulianDate"

-----------------------------------------------------------------------------
(* The guided tour                                                         *)

\* C29: whenever the tour panel renders (the tour is active and there is at least
\* one stop) the current index is smaller than the number of stops, after any Next
\* and Previous clicks and any changes of the stars and planets
C29_CurrentStopExists ==
    (tour.isActive /\ Len(TourStops(tour)) > 0) => tour.currentIndex < Len(TourStops(tour))

-----------------------------------------------------------------------------
(* The time animation                                                      *)

\* the time speed is 0 and the effect has run for it
Paused == anim.timeSpeed = 0 /\ anim.effectFor = 0

=============================================================================
